---- MODULE Spec2Model ----
(***************************************************************************)
(* Opcode-dispatch and gas-metering core of the EVM fork (package vm):     *)
(*   - the feature activators and EnableEIP          (eips.go)             *)
(*   - the access-list dynamic gas functions         (operations_acl.go)   *)
(* A jump table is a function from opcode to operation descriptor; the     *)
(* entries of a table are distinct non-nil *operation values, so a field   *)
(* write through jt[OP] changes the entry OP of that table only.           *)
(* Strings that the code splits or formats are sequences of characters.    *)
(***************************************************************************)
EXTENDS Integers, Sequences, FiniteSets, TLC

VARIABLES
    base,        \* builder: the base table as the build was handed it
    baseNow,     \* builder: the base table as it reads now
    shared,      \* builder: opcodes whose operation the draft shares with the base
    ids,         \* builder: the ordered identifier list being applied
    pos,         \* builder: number of identifiers consumed so far
    pass,        \* builder: 1 = first application of ids, 2 = second
    jt,          \* the table instance being built / the frozen table
    prevJt,      \* jt before the last EnableEIP call
    berr,        \* error returned by the last EnableEIP call (NoErr = nil)
    called,      \* activators invoked by the last EnableEIP call
    applied,     \* identifiers applied successfully so far, in order
    built,       \* the table at the end of the first pass
    name,        \* names: the identifier under test
    vres,        \* names: result of ValidateEIPName(name)
    lres,        \* names: result of ExistsEipActivator / EnableEIP on name
    accessAddrs, \* ledger: warm addresses
    accessSlots, \* ledger: warm (address, slot) pairs
    refund,      \* ledger: refund accumulator
    memory,      \* the Memory of the execution context
    last,        \* observation of the last gas computation
    seen,        \* keys earlier gas computations of this context were about
    kvStore      \* the module store: the value under the parameters key

vars == <<base, baseNow, shared, ids, pos, pass, jt, prevJt, berr, called, applied, built,
          name, vres, lres, accessAddrs, accessSlots, refund,
          memory, last, seen, kvStore>>

builderVars == <<base, baseNow, shared, ids, pos, pass, jt, prevJt, berr, called,
                 applied, built>>
nameVars == <<name, vres, lres>>
ledgerVars == <<accessAddrs, accessSlots, refund, memory, last, seen, kvStore>>

----------------------------------------------------------------------------
(* Bounds *)

\* longest identifier list handed to the builder
MaxIds == 3
\* longest free-form name generated over NameAlphabet
MaxNameLen == 4

----------------------------------------------------------------------------
(* Strings as character sequences *)

Eth == <<"e", "t", "h", "e", "r", "e", "u", "m">>
Underscore == "_"

E5656 == Eth \o <<"_", "5", "6", "5", "6">>
E3855 == Eth \o <<"_", "3", "8", "5", "5">>
E3529 == Eth \o <<"_", "3", "5", "2", "9">>
E3198 == Eth \o <<"_", "3", "1", "9", "8">>
E2929 == Eth \o <<"_", "2", "9", "2", "9">>
E2200 == Eth \o <<"_", "2", "2", "0", "0">>
E1884 == Eth \o <<"_", "1", "8", "8", "4">>
E1344 == Eth \o <<"_", "1", "3", "4", "4">>
\* well-formed but unregistered, and malformed (no underscore)
E9999 == Eth \o <<"_", "9", "9", "9", "9">>
E5656NoUnderscore == Eth \o <<"5", "6", "5", "6">>

NoErr == <<>>

----------------------------------------------------------------------------
(* Opcodes and gas parameters *)

SLOAD == "SLOAD"
SSTORE == "SSTORE"
BALANCE == "BALANCE"
EXTCODESIZE == "EXTCODESIZE"
EXTCODECOPY == "EXTCODECOPY"
EXTCODEHASH == "EXTCODEHASH"
SELFBALANCE == "SELFBALANCE"
CHAINID == "CHAINID"
BASEFEE == "BASEFEE"
PUSH0 == "PUSH0"
MCOPY == "MCOPY"
CALL == "CALL"
CALLCODE == "CALLCODE"
DELEGATECALL == "DELEGATECALL"
STATICCALL == "STATICCALL"
SELFDESTRUCT == "SELFDESTRUCT"

\* opcodes that no activator of eips.go touches
OtherOps == {"ADD", "MLOAD", "CREATE", "CREATE2"}
\* opcode bytes the new-opcode activators define
NewOps == {SELFBALANCE, CHAINID, BASEFEE, PUSH0, MCOPY}
StateOps == {SLOAD, SSTORE, BALANCE, EXTCODESIZE, EXTCODECOPY, EXTCODEHASH,
             CALL, CALLCODE, DELEGATECALL, STATICCALL, SELFDESTRUCT}
OpCodes == StateOps \cup NewOps \cup OtherOps

SloadGasEIP1884 == 800
BalanceGasEIP1884 == 700
ExtcodeHashGasEIP1884 == 700
SloadGasEIP2200 == 800
GasQuickStep == 2
GasFastStep == 5
WarmStorageReadCostEIP2929 == 100
ColdSloadCostEIP2929 == 2100
ColdAccountAccessCostEIP2929 == 2600
SelfdestructGasEIP150 == 5000

\* stack bounds are kept as the calls the descriptors are built with
minStack(pops, push) == <<"minStack", pops, push>>
maxStack(pop, push) == <<"maxStack", pop, push>>

NoDynamicGas == "nil"

----------------------------------------------------------------------------
(* Feature activators *)

enable1884Accumulating(t) ==
    [t EXCEPT ![SLOAD].constantGas = @ + SloadGasEIP1884,
              ![BALANCE].constantGas = BalanceGasEIP1884,
              ![EXTCODEHASH].constantGas = ExtcodeHashGasEIP1884,
              ![SELFBALANCE] = [execute |-> "opSelfBalance",
                                constantGas |-> GasFastStep,
                                dynamicGas |-> NoDynamicGas,
                                minStack |-> minStack(0, 1),
                                maxStack |-> maxStack(0, 1)]]

enable1884(t) ==
    [t EXCEPT ![SLOAD].constantGas = SloadGasEIP1884,
              ![BALANCE].constantGas = BalanceGasEIP1884,
              ![EXTCODEHASH].constantGas = ExtcodeHashGasEIP1884,
              ![SELFBALANCE] = [execute |-> "opSelfBalance",
                                constantGas |-> GasFastStep,
                                dynamicGas |-> NoDynamicGas,
                                minStack |-> minStack(0, 1),
                                maxStack |-> maxStack(0, 1)]]

enable1344(t) ==
    [t EXCEPT ![CHAINID] = [execute |-> "opChainID",
                            constantGas |-> GasQuickStep,
                            dynamicGas |-> NoDynamicGas,
                            minStack |-> minStack(0, 1),
                            maxStack |-> maxStack(0, 1)]]

enable2200(t) ==
    [t EXCEPT ![SLOAD].constantGas = SloadGasEIP2200,
              ![SSTORE].dynamicGas = "gasSStoreEIP2200"]

enable2929KeepsSloadGas(t) ==
    [t EXCEPT ![SSTORE].dynamicGas = "gasSStoreEIP2929",
              ![SLOAD].dynamicGas = "gasSLoadEIP2929",
              ![EXTCODECOPY].constantGas = WarmStorageReadCostEIP2929,
              ![EXTCODECOPY].dynamicGas = "gasExtCodeCopyEIP2929",
              ![EXTCODESIZE].constantGas = WarmStorageReadCostEIP2929,
              ![EXTCODESIZE].dynamicGas = "gasEip2929AccountCheck",
              ![EXTCODEHASH].constantGas = WarmStorageReadCostEIP2929,
              ![EXTCODEHASH].dynamicGas = "gasEip2929AccountCheck",
              ![BALANCE].constantGas = WarmStorageReadCostEIP2929,
              ![BALANCE].dynamicGas = "gasEip2929AccountCheck",
              ![CALL].constantGas = WarmStorageReadCostEIP2929,
              ![CALL].dynamicGas = "gasCallEIP2929",
              ![CALLCODE].constantGas = WarmStorageReadCostEIP2929,
              ![CALLCODE].dynamicGas = "gasCallCodeEIP2929",
              ![STATICCALL].constantGas = WarmStorageReadCostEIP2929,
              ![STATICCALL].dynamicGas = "gasStaticCallEIP2929",
              ![DELEGATECALL].constantGas = WarmStorageReadCostEIP2929,
              ![DELEGATECALL].dynamicGas = "gasDelegateCallEIP2929",
              ![SELFDESTRUCT].constantGas = SelfdestructGasEIP150,
              ![SELFDESTRUCT].dynamicGas = "gasSelfdestructEIP2929"]

enable2929ClearsSStoreGas(t) ==
    [t EXCEPT ![SSTORE].constantGas = 0,
              ![SSTORE].dynamicGas = "gasSStoreEIP2929",
              ![SLOAD].constantGas = 0,
              ![SLOAD].dynamicGas = "gasSLoadEIP2929",
              ![EXTCODECOPY].constantGas = WarmStorageReadCostEIP2929,
              ![EXTCODECOPY].dynamicGas = "gasExtCodeCopyEIP2929",
              ![EXTCODESIZE].constantGas = WarmStorageReadCostEIP2929,
              ![EXTCODESIZE].dynamicGas = "gasEip2929AccountCheck",
              ![EXTCODEHASH].constantGas = WarmStorageReadCostEIP2929,
              ![EXTCODEHASH].dynamicGas = "gasEip2929AccountCheck",
              ![BALANCE].constantGas = WarmStorageReadCostEIP2929,
              ![BALANCE].dynamicGas = "gasEip2929AccountCheck",
              ![CALL].constantGas = WarmStorageReadCostEIP2929,
              ![CALL].dynamicGas = "gasCallEIP2929",
              ![CALLCODE].constantGas = WarmStorageReadCostEIP2929,
              ![CALLCODE].dynamicGas = "gasCallCodeEIP2929",
              ![STATICCALL].constantGas = WarmStorageReadCostEIP2929,
              ![STATICCALL].dynamicGas = "gasStaticCallEIP2929",
              ![DELEGATECALL].constantGas = WarmStorageReadCostEIP2929,
              ![DELEGATECALL].dynamicGas = "gasDelegateCallEIP2929",
              ![SELFDESTRUCT].constantGas = SelfdestructGasEIP150,
              ![SELFDESTRUCT].dynamicGas = "gasSelfdestructEIP2929"]

enable2929(t) ==
    [t EXCEPT ![SSTORE].dynamicGas = "gasSStoreEIP2929",
              ![SLOAD].constantGas = 0,
              ![SLOAD].dynamicGas = "gasSLoadEIP2929",
              ![EXTCODECOPY].constantGas = WarmStorageReadCostEIP2929,
              ![EXTCODECOPY].dynamicGas = "gasExtCodeCopyEIP2929",
              ![EXTCODESIZE].constantGas = WarmStorageReadCostEIP2929,
              ![EXTCODESIZE].dynamicGas = "gasEip2929AccountCheck",
              ![EXTCODEHASH].constantGas = WarmStorageReadCostEIP2929,
              ![EXTCODEHASH].dynamicGas = "gasEip2929AccountCheck",
              ![BALANCE].constantGas = WarmStorageReadCostEIP2929,
              ![BALANCE].dynamicGas = "gasEip2929AccountCheck",
              ![CALL].constantGas = WarmStorageReadCostEIP2929,
              ![CALL].dynamicGas = "gasCallEIP2929",
              ![CALLCODE].constantGas = WarmStorageReadCostEIP2929,
              ![CALLCODE].dynamicGas = "gasCallCodeEIP2929",
              ![STATICCALL].constantGas = WarmStorageReadCostEIP2929,
              ![STATICCALL].dynamicGas = "gasStaticCallEIP2929",
              ![DELEGATECALL].constantGas = WarmStorageReadCostEIP2929,
              ![DELEGATECALL].dynamicGas = "gasDelegateCallEIP2929",
              ![SELFDESTRUCT].constantGas = SelfdestructGasEIP150,
              ![SELFDESTRUCT].dynamicGas = "gasSelfdestructEIP2929"]

enable3529(t) ==
    [t EXCEPT ![SSTORE].dynamicGas = "gasSStoreEIP3529",
              ![SELFDESTRUCT].dynamicGas = "gasSelfdestructEIP3529"]

enable3198(t) ==
    [t EXCEPT ![BASEFEE] = [execute |-> "opBaseFee",
                            constantGas |-> GasQuickStep,
                            dynamicGas |-> NoDynamicGas,
                            minStack |-> minStack(0, 1),
                            maxStack |-> maxStack(0, 1)]]

enable3855(t) ==
    [t EXCEPT ![PUSH0] = [execute |-> "opPush0",
                          constantGas |-> GasQuickStep,
                          dynamicGas |-> NoDynamicGas,
                          minStack |-> minStack(0, 1),
                          maxStack |-> maxStack(0, 1)]]

enable5656ReadsSloadGas(t) ==
    [t EXCEPT ![MCOPY] = [execute |-> "opMCopy",
                          constantGas |-> t[SLOAD].constantGas,
                          dynamicGas |-> "gasMCopy",
                          minStack |-> minStack(3, 0),
                          maxStack |-> maxStack(3, 0)]]

enable5656AtPush0(t) ==
    [t EXCEPT ![PUSH0] = [execute |-> "opMCopy",
                          constantGas |-> 0,
                          dynamicGas |-> "gasMCopy",
                          minStack |-> minStack(3, 0),
                          maxStack |-> maxStack(3, 0)]]

enable5656(t) ==
    [t EXCEPT ![MCOPY] = [execute |-> "opMCopy",
                          constantGas |-> 0,
                          dynamicGas |-> "gasMCopy",
                          minStack |-> minStack(3, 0),
                          maxStack |-> maxStack(3, 0)]]

\* the registry: identifier -> activator
activators ==
    (E5656 :> "enable5656") @@ (E3855 :> "enable3855") @@
    (E3529 :> "enable3529") @@ (E3198 :> "enable3198") @@
    (E2929 :> "enable2929") @@ (E2200 :> "enable2200") @@
    (E1884 :> "enable1884") @@ (E1344 :> "enable1344")

\* enablerFn(jt): the call of the function value found in the registry
enablerFn(fn, t) ==
    CASE fn = "enable5656" -> enable5656(t)
      [] fn = "enable3855" -> enable3855(t)
      [] fn = "enable3529" -> enable3529(t)
      [] fn = "enable3198" -> enable3198(t)
      [] fn = "enable2929" -> enable2929(t)
      [] fn = "enable2200" -> enable2200(t)
      [] fn = "enable1884" -> enable1884(t)
      [] fn = "enable1344" -> enable1344(t)

UndefinedEipPrefix ==
    <<"u", "n", "d", "e", "f", "i", "n", "e", "d", " ", "e", "i", "p", " ">>

\* fmt.Errorf("undefined eip %s", eipName)
ErrUndefinedEip(eipName) == UndefinedEipPrefix \o eipName

EnableEIPErrorWithoutName(eipName, t) ==
    IF eipName \notin DOMAIN activators
    THEN [err |-> UndefinedEipPrefix, jt |-> t, called |-> <<>>]
    ELSE [err |-> NoErr,
          jt |-> enablerFn(activators[eipName], t),
          called |-> <<activators[eipName]>>]

\* EnableEIP: the error returned, the table after the call (written in
\* place), and the activators the call invoked
EnableEIP(eipName, t) ==
    IF eipName \notin DOMAIN activators
    THEN [err |-> ErrUndefinedEip(eipName), jt |-> t, called |-> <<>>]
    ELSE [err |-> NoErr,
          jt |-> enablerFn(activators[eipName], t),
          called |-> <<activators[eipName]>>]

----------------------------------------------------------------------------
(* Name validation *)

RECURSIVE Split(_, _)
\* strings.Split(s, sep) for a one-character separator
Split(s, sep) ==
    IF \A i \in 1..Len(s) : s[i] # sep
    THEN <<s>>
    ELSE LET i == CHOOSE k \in 1..Len(s) :
                      s[k] = sep /\ \A j \in 1..(k - 1) : s[j] # sep
         IN <<SubSeq(s, 1, i - 1)>> \o Split(SubSeq(s, i + 1, Len(s)), sep)

DecimalDigits == <<"0", "1", "2", "3", "4", "5", "6", "7", "8", "9">>
IsDigit(ch) == \E d \in 1..10 : DecimalDigits[d] = ch
DigitVal(ch) == (CHOOSE d \in 1..10 : DecimalDigits[d] = ch) - 1

\* decimal digits of 1<<63 - 1, the largest int; the last digit is 8 for
\* the magnitude of the smallest int
MaxInt64Digits ==
    <<9, 2, 2, 3, 3, 7, 2, 0, 3, 6, 8, 5, 4, 7, 7, 5, 8, 0, 7>>

RECURSIVE StripZeros(_)
StripZeros(ds) ==
    IF ds # <<>> /\ Head(ds) = "0" THEN StripZeros(Tail(ds)) ELSE ds

\* ds (decimal digits, no leading zero, same length as bound) <= bound
DecimalLeq(ds, bound) ==
    \/ \A i \in 1..Len(ds) : DigitVal(ds[i]) = bound[i]
    \/ \E i \in 1..Len(ds) :
          /\ DigitVal(ds[i]) < bound[i]
          /\ \A j \in 1..(i - 1) : DigitVal(ds[j]) = bound[j]

\* strconv.ParseInt(s, 10, 0) returns a nil error
ParseIntOk(s) ==
    /\ s # <<>>
    /\ LET neg == s[1] = "-"
           ds == IF s[1] \in {"+", "-"} THEN Tail(s) ELSE s
           sig == StripZeros(ds)
           bound == IF neg THEN [MaxInt64Digits EXCEPT ![19] = 8]
                           ELSE MaxInt64Digits
       IN /\ ds # <<>>
          /\ \A i \in 1..Len(ds) : IsDigit(ds[i])
          /\ \/ Len(sig) < 19
             \/ Len(sig) = 19 /\ DecimalLeq(sig, bound)

\* strconv.Atoi(s) returns a nil error (64-bit int): the fast path for
\* strings of 1..18 characters, ParseInt otherwise
AtoiOk(s) ==
    IF 0 < Len(s) /\ Len(s) < 19
    THEN LET ds == IF s[1] \in {"-", "+"} THEN Tail(s) ELSE s
         IN /\ Len(ds) >= 1
            /\ \A i \in 1..Len(ds) : IsDigit(ds[i])
    ELSE ParseIntOk(s)

ErrNameStructure == <<"eip name does not conform to structure 'chainName_Number'">>
ErrNameNumber == <<"eip number should be convertible to int">>

ValidateEIPNameAtLeastTwoParts(eipName) ==
    LET eipSplit == Split(eipName, Underscore)
    IN IF Len(eipSplit) < 2 THEN ErrNameStructure
       ELSE IF ~AtoiOk(eipSplit[2]) THEN ErrNameNumber
       ELSE NoErr

ValidateEIPName(eipName) ==
    LET eipSplit == Split(eipName, Underscore)
    IN IF Len(eipSplit) # 2 THEN ErrNameStructure
       ELSE IF ~AtoiOk(eipSplit[2]) THEN ErrNameNumber
       ELSE NoErr

ExistsEipActivatorByValidName(eipName) == ValidateEIPName(eipName) = NoErr

ExistsEipActivator(eipName) == eipName \in DOMAIN activators

----------------------------------------------------------------------------
(* Base tables and the table builder *)

Identifiers == DOMAIN activators \cup {E9999, E5656NoUnderscore}

\* the dynamic gas function an instruction set has before any activator
LegacyDynamicGas(op) ==
    CASE op = SSTORE -> "gasSStore"
      [] op = EXTCODECOPY -> "gasExtCodeCopy"
      [] op = CALL -> "gasCall"
      [] op = CALLCODE -> "gasCallCode"
      [] op = DELEGATECALL -> "gasDelegateCall"
      [] op = STATICCALL -> "gasStaticCall"
      [] op = SELFDESTRUCT -> "gasSelfdestruct"
      [] op = "MLOAD" -> "gasMLoad"
      [] op = "CREATE" -> "gasCreate"
      [] op = "CREATE2" -> "gasCreate2"
      [] OTHER -> NoDynamicGas

\* the explicit marker of an unassigned opcode byte
UndefinedOperation ==
    [execute |-> "opUndefined", constantGas |-> 0, dynamicGas |-> NoDynamicGas,
     minStack |-> minStack(0, 0), maxStack |-> maxStack(0, 0)]

\* an instruction set older than every activator: the new opcodes are
\* undefined, every other opcode costs g
LegacyTable(g) ==
    [op \in OpCodes |->
        IF op \in NewOps THEN UndefinedOperation
        ELSE [execute |-> "op" \o op, constantGas |-> g,
              dynamicGas |-> LegacyDynamicGas(op),
              minStack |-> minStack(1, 1), maxStack |-> maxStack(1, 1)]]

\* protocol-historical order of the registered features
HistoricalOrder == <<E1344, E1884, E2200, E2929, E3198, E3529, E3855, E5656>>

RECURSIVE ApplyAll(_, _)
ApplyAll(list, t) ==
    IF list = <<>> THEN t
    ELSE ApplyAll(Tail(list), EnableEIP(Head(list), t).jt)

\* the tables a build may start from: legacy sets and sets that already
\* hold a prefix of the features
BaseTables ==
    {LegacyTable(g) : g \in {0, 200, 800}}
        \cup {ApplyAll(SubSeq(HistoricalOrder, 1, n), LegacyTable(200)) : n \in {3, 8}}

RECURSIVE SeqsUpTo(_, _)
SeqsUpTo(S, n) ==
    IF n = 0 THEN {<<>>}
    ELSE LET shorter == SeqsUpTo(S, n - 1)
         IN shorter \cup {Append(q, x) : q \in {r \in shorter : Len(r) = n - 1}, x \in S}

IdLists == SeqsUpTo(Identifiers, MaxIds)

\* the draft table is a copy of the base table
CopyJumpTable(t) == [op \in DOMAIN t |-> t[op]]

CopySharesAll(t) == DOMAIN t

\* the opcodes whose operation a copy shares with the table copied: none,
\* the copy holds an operation of its own for every opcode
CopyShares(t) == {}

\* the opcodes an activator gives a new operation (jt[OP] = &operation{...});
\* every other write of an activator assigns a field of the operation the
\* table holds (jt[OP].constantGas = ..., jt[OP].dynamicGas = ...)
NewOperation ==
    ("enable5656" :> {MCOPY}) @@ ("enable3855" :> {PUSH0}) @@
    ("enable3529" :> {}) @@ ("enable3198" :> {BASEFEE}) @@
    ("enable2929" :> {}) @@ ("enable2200" :> {}) @@
    ("enable1884" :> {SELFBALANCE}) @@ ("enable1344" :> {CHAINID})

\* the opcodes whose operation two tables still share after the activators
\* called ran on one of them: a new operation is the written table's alone
StillShared(calledFns, sharedOps) ==
    IF calledFns = <<>> THEN sharedOps
    ELSE sharedOps \ NewOperation[calledFns[1]]

\* the other table after the activators called ran: a field assigned on a
\* shared operation is assigned for both
WrittenThrough(calledFns, sharedOps, written, other) ==
    [op \in DOMAIN other |->
        IF op \in StillShared(calledFns, sharedOps) THEN written[op] ELSE other[op]]

NotInNames == <<"-">>
NotInLedger == [op |-> "none"]
\* NewMemory(): no bytes, nothing charged
NewMemory == [store |-> <<>>, lastGasCost |-> 0]
NotInBuilder == <<>>
\* store.Get on a key that was never set
NilBytes == <<"nil">>
NothingSeen ==
    [sloads |-> {}, checks |-> {}, ops |-> {}, sstores |-> {}, coldOOG |-> {},
     destructed |-> {}, original |-> <<>>, current |-> <<>>, clears |-> <<>>,
     writes |-> 0]

BuildInit ==
    /\ base \in BaseTables
    /\ baseNow = base
    /\ shared = CopyShares(base)
    /\ ids \in IdLists
    /\ pos = 0
    /\ pass = 1
    /\ jt = CopyJumpTable(base)
    /\ prevJt = jt
    /\ berr = NoErr
    /\ called = <<>>
    /\ applied = <<>>
    /\ built = <<>>
    /\ name = NotInNames
    /\ vres = <<>>
    /\ lres = <<>>
    /\ accessAddrs = {}
    /\ accessSlots = {}
    /\ refund = 0
    /\ memory = NewMemory
    /\ kvStore = NilBytes
    /\ last = NotInLedger
    /\ seen = NothingSeen

\* one iteration of the build loop: EnableEIP on the next identifier, which
\* writes the draft in place; an error aborts the build
BuildStep ==
    /\ pos < Len(ids)
    /\ berr = NoErr
    /\ built = <<>> \/ pass = 2
    /\ LET r == EnableEIP(ids[pos + 1], jt)
       IN /\ prevJt' = jt
          /\ jt' = r.jt
          /\ berr' = r.err
          /\ called' = r.called
          /\ applied' = IF r.err = NoErr THEN Append(applied, ids[pos + 1])
                        ELSE applied
          /\ baseNow' = WrittenThrough(r.called, shared, r.jt, baseNow)
          /\ shared' = StillShared(r.called, shared)
    /\ pos' = pos + 1
    /\ UNCHANGED <<base, ids, pass, built>>
    /\ UNCHANGED nameVars
    /\ UNCHANGED ledgerVars

\* the build returns the populated table
BuildReturn ==
    /\ pos = Len(ids)
    /\ berr = NoErr
    /\ pass = 1
    /\ built = <<>>
    /\ built' = <<jt>>
    /\ UNCHANGED <<base, baseNow, shared, ids, pos, pass, jt, prevJt, berr, called,
                   applied>>
    /\ UNCHANGED nameVars
    /\ UNCHANGED ledgerVars

\* the same identifier list is applied again to the table just built
BuildAgain ==
    /\ pass = 1
    /\ built # <<>>
    /\ pass' = 2
    /\ pos' = 0
    /\ called' = <<>>
    /\ prevJt' = jt
    /\ UNCHANGED <<base, baseNow, shared, ids, jt, berr, applied, built>>
    /\ UNCHANGED nameVars
    /\ UNCHANGED ledgerVars

BuildNext == BuildStep \/ BuildReturn \/ BuildAgain

Spec == BuildInit /\ [][BuildNext]_vars


----------------------------------------------------------------------------
(* Claims about EnableEIP and the builder (checked under Spec) *)

Range(q) == {q[i] : i \in 1..Len(q)}

\* the identifier of the last EnableEIP call
LastId == ids[pos]

\* C1: for an identifier that is not a key of the registry, EnableEIP
\* returns an error that names the identifier (the message ends with it),
\* invokes no activator, and leaves every entry of the table unchanged.
C1_UnknownIdentifierError ==
    (pos >= 1 /\ LastId \notin DOMAIN activators) =>
        /\ berr # NoErr
        /\ Len(berr) = Len(UndefinedEipPrefix) + Len(LastId)
        /\ SubSeq(berr, Len(UndefinedEipPrefix) + 1, Len(berr)) = LastId
        /\ called = <<>>
        /\ \A op \in OpCodes : jt[op] = prevJt[op]

C1_Witness ==
    /\ pos >= 1
    /\ LastId = E9999
    /\ berr = ErrUndefinedEip(E9999)
    /\ jt = prevJt

C3_BuildIdempotent ==
    /\ (pass = 2 /\ pos = Len(ids) /\ berr = NoErr) => jt = built[1]
    /\ (pos >= 2 /\ berr = NoErr /\ ids[pos] = ids[pos - 1]) => jt = prevJt
    /\ \A id \in DOMAIN activators :
          EnableEIP(id, EnableEIP(id, jt).jt).jt = EnableEIP(id, jt).jt

C3_Witness ==
    /\ pass = 2
    /\ pos = Len(ids)
    /\ berr = NoErr
    /\ ids = <<E2929, E1884, E2200>>
    /\ jt # base
    /\ jt = built[1]

\* C4: the result depends on the order and a wrong order is not reported:
\* ethereum_2929 applied after ethereum_1884 and ethereum_2200 leaves SLOAD
\* with constant gas 0 and SSTORE with the access-list function; 1884 or
\* 2200 applied after 2929 returns no error and leaves SLOAD with a nonzero
\* constant gas and the access-list dynamic function (and, for 2200, SSTORE
\* with the pre-access-list function).
Earlier == SubSeq(applied, 1, Len(applied) - 1)

C4_OrderDependence ==
    /\ (called = <<"enable2929">> /\ {E1884, E2200} \subseteq Range(Earlier)) =>
          /\ jt[SLOAD].constantGas = 0
          /\ jt[SSTORE].dynamicGas = "gasSStoreEIP2929"
    /\ (called = <<"enable1884">> /\ E2929 \in Range(Earlier)) =>
          /\ berr = NoErr
          /\ jt[SLOAD].constantGas # 0
          /\ jt[SLOAD].dynamicGas = "gasSLoadEIP2929"
    /\ (called = <<"enable2200">> /\ E2929 \in Range(Earlier)) =>
          /\ berr = NoErr
          /\ jt[SLOAD].constantGas # 0
          /\ jt[SLOAD].dynamicGas = "gasSLoadEIP2929"
          /\ jt[SSTORE].dynamicGas = "gasSStoreEIP2200"

C4_Witness ==
    /\ applied = <<E2929, E2200>>
    /\ called = <<"enable2200">>
    /\ jt[SLOAD].constantGas = SloadGasEIP2200
    /\ jt[SSTORE].dynamicGas = "gasSStoreEIP2200"
    /\ ApplyAll(<<E1884, E2200, E2929>>, base)[SLOAD].constantGas = 0

\* the opcode byte a new-opcode activator defines
NewOpcodeOf ==
    [enable1884 |-> SELFBALANCE, enable1344 |-> CHAINID, enable3198 |-> BASEFEE,
     enable3855 |-> PUSH0, enable5656 |-> MCOPY]

NewOpcodeExecute ==
    [enable1884 |-> "opSelfBalance", enable1344 |-> "opChainID",
     enable3198 |-> "opBaseFee", enable3855 |-> "opPush0", enable5656 |-> "opMCopy"]

\* C5 as stated: each of the five new-opcode activators leaves the
\* descriptor of every opcode other than its new one unchanged.
C5_AsStated ==
    (called # <<>> /\ called[1] \in DOMAIN NewOpcodeOf) =>
        /\ jt[NewOpcodeOf[called[1]]].execute = NewOpcodeExecute[called[1]]
        /\ \A op \in OpCodes \ {NewOpcodeOf[called[1]]} : jt[op] = prevJt[op]

\* C5 amended: ethereum_1344, ethereum_3198, ethereum_3855 and
\* ethereum_5656 set the descriptor of their new opcode and change no other
\* entry; ethereum_1884 sets the descriptor of SELFBALANCE and the constant
\* gas of SLOAD (800), BALANCE (700) and EXTCODEHASH (700), and changes no
\* other field of those three and no other entry.
C5_NewOpcodeFrame ==
    (called # <<>> /\ called[1] \in DOMAIN NewOpcodeOf) =>
        LET fn == called[1]
            touched == IF fn = "enable1884" THEN {SLOAD, BALANCE, EXTCODEHASH}
                       ELSE {}
        IN /\ jt[NewOpcodeOf[fn]].execute = NewOpcodeExecute[fn]
           /\ \A op \in OpCodes \ ({NewOpcodeOf[fn]} \cup touched) :
                 jt[op] = prevJt[op]
           /\ \A op \in touched :
                 /\ jt[op] = [prevJt[op] EXCEPT !.constantGas = jt[op].constantGas]
                 /\ jt[op].constantGas = IF op = SLOAD THEN 800 ELSE 700

C5_Witness ==
    /\ called = <<"enable1884">>
    /\ prevJt[SELFBALANCE] = UndefinedOperation
    /\ jt[SELFBALANCE].execute = "opSelfBalance"
    /\ jt[SLOAD] # prevJt[SLOAD]
    /\ jt[BALANCE] # prevJt[BALANCE]


----------------------------------------------------------------------------
(* Name validation and activator lookup on one identifier *)

NameAlphabet == {"e", "_", "5", "0", "-", "+"}

Int64Max == <<"9", "2", "2", "3", "3", "7", "2", "0", "3", "6",
              "8", "5", "4", "7", "7", "5", "8", "0", "7">>
Int64MaxPlusOne == [Int64Max EXCEPT ![19] = "8"]

\* identifiers whose number part is 19 characters or longer
LongNames ==
    {Eth \o <<"_">> \o Int64Max,
     Eth \o <<"_">> \o Int64MaxPlusOne,
     Eth \o <<"_", "-">> \o Int64MaxPlusOne,
     Eth \o <<"_", "0", "0", "0">> \o Int64Max,
     Eth \o <<"_">> \o Int64Max \o <<"0">>,
     Eth \o <<"_">> \o Int64Max \o <<"e">>}

NameInputs == Identifiers \cup SeqsUpTo(NameAlphabet, MaxNameLen) \cup LongNames

\* the frozen table lookups run against
FrozenTable == ApplyAll(HistoricalOrder, LegacyTable(200))

NamesInit ==
    /\ name \in NameInputs
    /\ vres = <<>>
    /\ lres = <<>>
    /\ base = FrozenTable
    /\ baseNow = FrozenTable
    /\ shared = {}
    /\ ids = <<>>
    /\ pos = 0
    /\ pass = 1
    /\ jt = FrozenTable
    /\ prevJt = FrozenTable
    /\ berr = NoErr
    /\ called = <<>>
    /\ applied = <<>>
    /\ built = <<>>
    /\ accessAddrs = {}
    /\ accessSlots = {}
    /\ refund = 0
    /\ memory = NewMemory
    /\ kvStore = NilBytes
    /\ last = NotInLedger
    /\ seen = NothingSeen

ValidateStep ==
    /\ vres = <<>>
    /\ vres' = <<ValidateEIPName(name)>>
    /\ UNCHANGED <<name, lres>>
    /\ UNCHANGED builderVars
    /\ UNCHANGED ledgerVars

\* ExistsEipActivator(name), then EnableEIP(name, copy of the table)
LookupStep ==
    /\ lres = <<>>
    /\ lres' = <<[exists |-> ExistsEipActivator(name),
                  err |-> EnableEIP(name, CopyJumpTable(jt)).err]>>
    /\ UNCHANGED <<name, vres>>
    /\ UNCHANGED builderVars
    /\ UNCHANGED ledgerVars

NamesNext == ValidateStep \/ LookupStep

SpecNames == NamesInit /\ [][NamesNext]_vars

Digits == {"0", "1", "2", "3", "4", "5", "6", "7", "8", "9"}

\* an optional sign followed by one or more decimal digits
IntegerLiteral(s) ==
    \E k \in {0, 1} :
        /\ Len(s) > k
        /\ k = 1 => s[1] \in {"+", "-"}
        /\ \A i \in (k + 1)..Len(s) : s[i] \in Digits

UnderscoreAt(n) == {i \in 1..Len(n) : n[i] = "_"}
NumberPart(n) == SubSeq(n, (CHOOSE i \in UnderscoreAt(n) : TRUE) + 1, Len(n))

\* C6: ValidateEIPName returns no error exactly for names with one
\* underscore (two parts) whose second part parses as an integer: an
\* optionally signed run of digits that fits the int type; names with no
\* underscore, with more than one, or with another suffix get an error.
C6_ValidateEIPName ==
    vres # <<>> =>
        /\ Cardinality(UnderscoreAt(name)) # 1 => vres[1] = ErrNameStructure
        /\ (Cardinality(UnderscoreAt(name)) = 1 /\ ~IntegerLiteral(NumberPart(name)))
              => vres[1] = ErrNameNumber
        /\ (/\ Cardinality(UnderscoreAt(name)) = 1
            /\ IntegerLiteral(NumberPart(name))
            /\ Len(NumberPart(name)) < 19) => vres[1] = NoErr
        /\ name = E5656NoUnderscore => vres[1] # NoErr
        /\ name \in {Eth \o <<"_">> \o Int64Max,
                     Eth \o <<"_", "-">> \o Int64MaxPlusOne,
                     Eth \o <<"_", "0", "0", "0">> \o Int64Max} => vres[1] = NoErr
        /\ name \in {Eth \o <<"_">> \o Int64MaxPlusOne,
                     Eth \o <<"_">> \o Int64Max \o <<"0">>} => vres[1] = ErrNameNumber

C6_Witness ==
    /\ name = <<"e", "_", "-", "5">>
    /\ vres = <<NoErr>>

\* C7: validity and registration are independent: every registry key is a
\* valid name; "ethereum_9999" is valid but EnableEIP on it fails; and
\* ExistsEipActivator(name) holds exactly when EnableEIP(name, table)
\* returns no error.
C7_ValidityAndRegistration ==
    /\ \A id \in DOMAIN activators : ValidateEIPName(id) = NoErr
    /\ (name \in DOMAIN activators /\ vres # <<>>) => vres[1] = NoErr
    /\ (name = E9999 /\ vres # <<>>) => vres[1] = NoErr
    /\ (name = E9999 /\ lres # <<>>) => lres[1].err # NoErr
    /\ lres # <<>> => (lres[1].exists <=> lres[1].err = NoErr)

C7_Witness ==
    /\ name = E9999
    /\ vres = <<NoErr>>
    /\ lres # <<>>
    /\ ~lres[1].exists
    /\ lres[1].err = ErrUndefinedEip(E9999)


----------------------------------------------------------------------------
(* Execution context: access-list ledger, contract, stack *)

\* number of addresses and of storage slots per address
NumAddrs == 2
NumSlots == 1

Addrs == 1..NumAddrs
Slots == 1..NumSlots
\* the transaction's destination: warm when execution starts
TxDest == 1

SstoreSentryGasEIP2200 == 2300
SstoreSetGasEIP2200 == 20000
SstoreResetGasEIP2200 == 5000
SstoreClearsScheduleRefundEIP2200 == 15000
SstoreClearsScheduleRefundEIP3529 == 4800
SelfdestructRefundGas == 24000
CreateBySelfdestructGas == 25000

ErrOutOfGas == <<"out of gas">>
ErrGasUintOverflow == <<"gas uint64 overflow">>
ErrSentry == <<"not enough gas for reentrancy sentry">>
PanicSStore ==
    <<"panic: impossible case: address was not present in access list during sstore op">>

\* uint64 values are kept as their residue nearest zero: v < 2^31 is v,
\* v >= 2^64 - 2^31 is v - 2^64 (so -1 is math.MaxUint64)
MaxUint64 == -1

\* math.SafeAdd(x, y): the wrapped sum and whether it overflowed
SafeAdd(x, y) ==
    [sum |-> x + y,
     overflow |-> \/ (x < 0 /\ y < 0)
                  \/ (x < 0 /\ y >= 0 /\ x + y >= 0)
                  \/ (y < 0 /\ x >= 0 /\ x + y >= 0)]

\* the stack grows at the end: Peek is the top, Back(n) the n-th from the top
Peek(stack) == stack[Len(stack)]
Back(stack, n) == stack[Len(stack) - n]

\* Bytes20 / Bytes32 of a stack word (the words used are below 2^160)
Bytes20(word) == word
Bytes32(word) == word

\* the ledger as the StateDB collaborator exposes it
AddressInAccessList(db, addr) == addr \in db.addrs
SlotInAccessList(db, addr, slot) ==
    [addrPresent |-> addr \in db.addrs, slotPresent |-> <<addr, slot>> \in db.slots]
AddAddressToAccessList(db, addr) == [db EXCEPT !.addrs = @ \cup {addr}]
AddSlotToAccessList(db, addr, slot) ==
    [db EXCEPT !.addrs = @ \cup {addr}, !.slots = @ \cup {<<addr, slot>>}]
AddRefund(db, gas) == [db EXCEPT !.refund = @ + gas]
\* StateDB.SubRefund panics when the accumulator holds less than gas
PanicRefund(gas, have) == <<"panic: Refund counter below zero", gas, have>>
SubRefund(db, gas) ==
    IF gas > db.refund
    THEN [panic |-> PanicRefund(gas, db.refund), db |-> db]
    ELSE [panic |-> NoErr, db |-> [db EXCEPT !.refund = @ - gas]]
GetState(world, addr, slot) == world.current[<<addr, slot>>]
GetCommittedState(world, addr, slot) == world.original[<<addr, slot>>]
Empty(world, addr) == world.empty[addr]
HasSuicided(world, addr) == world.suicided[addr]
GetBalance(world, addr) == world.balance[addr]

\* Contract.UseGas
UseGas(contract, gas) ==
    IF contract.gas < gas THEN [ok |-> FALSE, contract |-> contract]
    ELSE [ok |-> TRUE, contract |-> [contract EXCEPT !.gas = @ - gas]]

Result(cost, err, db, contract) ==
    [cost |-> cost, err |-> err, db |-> db, contract |-> contract]

----------------------------------------------------------------------------
(* Dynamic gas functions of the access-list family *)

makeGasSStoreFuncNoResetClear(clearingRefund, db, world, contract, stack) ==
    IF contract.gas <= SstoreSentryGasEIP2200
    THEN Result(0, ErrSentry, db, contract)
    ELSE
    LET y == Back(stack, 1)
        x == Peek(stack)
        slot == Bytes32(x)
        current == GetState(world, contract.addr, slot)
        present == SlotInAccessList(db, contract.addr, slot)
        cost == IF ~present.slotPresent THEN ColdSloadCostEIP2929 ELSE 0
        db1 == IF ~present.slotPresent
               THEN AddSlotToAccessList(db, contract.addr, slot) ELSE db
        value == Bytes32(y)
        original == GetCommittedState(world, contract.addr, Bytes32(x))
    IN IF ~present.slotPresent /\ ~present.addrPresent
       THEN Result(0, PanicSStore, db1, contract)
       ELSE IF current = value
       THEN Result(cost + WarmStorageReadCostEIP2929, NoErr, db1, contract)
       ELSE IF original = current
       THEN IF original = 0
            THEN Result(cost + SstoreSetGasEIP2200, NoErr, db1, contract)
            ELSE LET db2 == db1
                 IN Result(cost + (SstoreResetGasEIP2200 - ColdSloadCostEIP2929),
                           NoErr, db2, contract)
       ELSE
       LET sub == SubRefund(db1, clearingRefund)
           db2 == IF original # 0
                  THEN IF current = 0 THEN sub.db
                       ELSE IF value = 0 THEN AddRefund(db1, clearingRefund)
                       ELSE db1
                  ELSE db1
           db3 == IF original = value
                  THEN IF original = 0
                       THEN AddRefund(db2, SstoreSetGasEIP2200 - WarmStorageReadCostEIP2929)
                       ELSE AddRefund(db2, (SstoreResetGasEIP2200 - ColdSloadCostEIP2929)
                                               - WarmStorageReadCostEIP2929)
                  ELSE db2
       IN IF original # 0 /\ current = 0 /\ sub.panic # NoErr
          THEN Result(0, sub.panic, sub.db, contract)
          ELSE Result(cost + WarmStorageReadCostEIP2929, NoErr, db3, contract)

makeGasSStoreFuncNoDirtyClear(clearingRefund, db, world, contract, stack) ==
    IF contract.gas <= SstoreSentryGasEIP2200
    THEN Result(0, ErrSentry, db, contract)
    ELSE
    LET y == Back(stack, 1)
        x == Peek(stack)
        slot == Bytes32(x)
        current == GetState(world, contract.addr, slot)
        present == SlotInAccessList(db, contract.addr, slot)
        cost == IF ~present.slotPresent THEN ColdSloadCostEIP2929 ELSE 0
        db1 == IF ~present.slotPresent
               THEN AddSlotToAccessList(db, contract.addr, slot) ELSE db
        value == Bytes32(y)
        original == GetCommittedState(world, contract.addr, Bytes32(x))
    IN IF ~present.slotPresent /\ ~present.addrPresent
       THEN Result(0, PanicSStore, db1, contract)
       ELSE IF current = value
       THEN Result(cost + WarmStorageReadCostEIP2929, NoErr, db1, contract)
       ELSE IF original = current
       THEN IF original = 0
            THEN Result(cost + SstoreSetGasEIP2200, NoErr, db1, contract)
            ELSE LET db2 == IF value = 0 THEN AddRefund(db1, clearingRefund) ELSE db1
                 IN Result(cost + (SstoreResetGasEIP2200 - ColdSloadCostEIP2929),
                           NoErr, db2, contract)
       ELSE
       LET sub == SubRefund(db1, clearingRefund)
           db2 == IF original # 0
                  THEN IF current = 0 THEN sub.db
                       ELSE db1
                  ELSE db1
           db3 == IF original = value
                  THEN IF original = 0
                       THEN AddRefund(db2, SstoreSetGasEIP2200 - WarmStorageReadCostEIP2929)
                       ELSE AddRefund(db2, (SstoreResetGasEIP2200 - ColdSloadCostEIP2929)
                                               - WarmStorageReadCostEIP2929)
                  ELSE db2
       IN IF original # 0 /\ current = 0 /\ sub.panic # NoErr
          THEN Result(0, sub.panic, sub.db, contract)
          ELSE Result(cost + WarmStorageReadCostEIP2929, NoErr, db3, contract)

makeGasSStoreFuncRecreateAdds(clearingRefund, db, world, contract, stack) ==
    IF contract.gas <= SstoreSentryGasEIP2200
    THEN Result(0, ErrSentry, db, contract)
    ELSE
    LET y == Back(stack, 1)
        x == Peek(stack)
        slot == Bytes32(x)
        current == GetState(world, contract.addr, slot)
        present == SlotInAccessList(db, contract.addr, slot)
        cost == IF ~present.slotPresent THEN ColdSloadCostEIP2929 ELSE 0
        db1 == IF ~present.slotPresent
               THEN AddSlotToAccessList(db, contract.addr, slot) ELSE db
        value == Bytes32(y)
        original == GetCommittedState(world, contract.addr, Bytes32(x))
    IN IF ~present.slotPresent /\ ~present.addrPresent
       THEN Result(0, PanicSStore, db1, contract)
       ELSE IF current = value
       THEN Result(cost + WarmStorageReadCostEIP2929, NoErr, db1, contract)
       ELSE IF original = current
       THEN IF original = 0
            THEN Result(cost + SstoreSetGasEIP2200, NoErr, db1, contract)
            ELSE LET db2 == IF value = 0 THEN AddRefund(db1, clearingRefund) ELSE db1
                 IN Result(cost + (SstoreResetGasEIP2200 - ColdSloadCostEIP2929),
                           NoErr, db2, contract)
       ELSE
       LET db2 == IF original # 0
                  THEN IF current = 0 THEN AddRefund(db1, clearingRefund)
                       ELSE IF value = 0 THEN AddRefund(db1, clearingRefund)
                       ELSE db1
                  ELSE db1
           db3 == IF original = value
                  THEN IF original = 0
                       THEN AddRefund(db2, SstoreSetGasEIP2200 - WarmStorageReadCostEIP2929)
                       ELSE AddRefund(db2, (SstoreResetGasEIP2200 - ColdSloadCostEIP2929)
                                               - WarmStorageReadCostEIP2929)
                  ELSE db2
       IN Result(cost + WarmStorageReadCostEIP2929, NoErr, db3, contract)

makeGasSStoreFuncLegacyResetRefund(clearingRefund, db, world, contract, stack) ==
    IF contract.gas <= SstoreSentryGasEIP2200
    THEN Result(0, ErrSentry, db, contract)
    ELSE
    LET y == Back(stack, 1)
        x == Peek(stack)
        slot == Bytes32(x)
        current == GetState(world, contract.addr, slot)
        present == SlotInAccessList(db, contract.addr, slot)
        cost == IF ~present.slotPresent THEN ColdSloadCostEIP2929 ELSE 0
        db1 == IF ~present.slotPresent
               THEN AddSlotToAccessList(db, contract.addr, slot) ELSE db
        value == Bytes32(y)
        original == GetCommittedState(world, contract.addr, Bytes32(x))
    IN IF ~present.slotPresent /\ ~present.addrPresent
       THEN Result(0, PanicSStore, db1, contract)
       ELSE IF current = value
       THEN Result(cost + WarmStorageReadCostEIP2929, NoErr, db1, contract)
       ELSE IF original = current
       THEN IF original = 0
            THEN Result(cost + SstoreSetGasEIP2200, NoErr, db1, contract)
            ELSE LET db2 == IF value = 0 THEN AddRefund(db1, clearingRefund) ELSE db1
                 IN Result(cost + (SstoreResetGasEIP2200 - ColdSloadCostEIP2929),
                           NoErr, db2, contract)
       ELSE
       LET sub == SubRefund(db1, clearingRefund)
           db2 == IF original # 0
                  THEN IF current = 0 THEN sub.db
                       ELSE IF value = 0 THEN AddRefund(db1, clearingRefund)
                       ELSE db1
                  ELSE db1
           db3 == IF original = value
                  THEN IF original = 0
                       THEN AddRefund(db2, SstoreSetGasEIP2200 - SloadGasEIP2200)
                       ELSE AddRefund(db2, (SstoreResetGasEIP2200 - ColdSloadCostEIP2929)
                                               - SloadGasEIP2200)
                  ELSE db2
       IN IF original # 0 /\ current = 0 /\ sub.panic # NoErr
          THEN Result(0, sub.panic, sub.db, contract)
          ELSE Result(cost + WarmStorageReadCostEIP2929, NoErr, db3, contract)

makeGasSStoreFuncNoMark(clearingRefund, db, world, contract, stack) ==
    IF contract.gas <= SstoreSentryGasEIP2200
    THEN Result(0, ErrSentry, db, contract)
    ELSE
    LET y == Back(stack, 1)
        x == Peek(stack)
        slot == Bytes32(x)
        current == GetState(world, contract.addr, slot)
        present == SlotInAccessList(db, contract.addr, slot)
        cost == IF ~present.slotPresent THEN ColdSloadCostEIP2929 ELSE 0
        db1 == db
        value == Bytes32(y)
        original == GetCommittedState(world, contract.addr, Bytes32(x))
    IN IF ~present.slotPresent /\ ~present.addrPresent
       THEN Result(0, PanicSStore, db1, contract)
       ELSE IF current = value
       THEN Result(cost + WarmStorageReadCostEIP2929, NoErr, db1, contract)
       ELSE IF original = current
       THEN IF original = 0
            THEN Result(cost + SstoreSetGasEIP2200, NoErr, db1, contract)
            ELSE LET db2 == IF value = 0 THEN AddRefund(db1, clearingRefund) ELSE db1
                 IN Result(cost + (SstoreResetGasEIP2200 - ColdSloadCostEIP2929),
                           NoErr, db2, contract)
       ELSE
       LET sub == SubRefund(db1, clearingRefund)
           db2 == IF original # 0
                  THEN IF current = 0 THEN sub.db
                       ELSE IF value = 0 THEN AddRefund(db1, clearingRefund)
                       ELSE db1
                  ELSE db1
           db3 == IF original = value
                  THEN IF original = 0
                       THEN AddRefund(db2, SstoreSetGasEIP2200 - WarmStorageReadCostEIP2929)
                       ELSE AddRefund(db2, (SstoreResetGasEIP2200 - ColdSloadCostEIP2929)
                                               - WarmStorageReadCostEIP2929)
                  ELSE db2
       IN IF original # 0 /\ current = 0 /\ sub.panic # NoErr
          THEN Result(0, sub.panic, sub.db, contract)
          ELSE Result(cost + WarmStorageReadCostEIP2929, NoErr, db3, contract)

makeGasSStoreFuncResetFull(clearingRefund, db, world, contract, stack) ==
    IF contract.gas <= SstoreSentryGasEIP2200
    THEN Result(0, ErrSentry, db, contract)
    ELSE
    LET y == Back(stack, 1)
        x == Peek(stack)
        slot == Bytes32(x)
        current == GetState(world, contract.addr, slot)
        present == SlotInAccessList(db, contract.addr, slot)
        cost == IF ~present.slotPresent THEN ColdSloadCostEIP2929 ELSE 0
        db1 == IF ~present.slotPresent
               THEN AddSlotToAccessList(db, contract.addr, slot) ELSE db
        value == Bytes32(y)
        original == GetCommittedState(world, contract.addr, Bytes32(x))
    IN IF ~present.slotPresent /\ ~present.addrPresent
       THEN Result(0, PanicSStore, db1, contract)
       ELSE IF current = value
       THEN Result(cost + WarmStorageReadCostEIP2929, NoErr, db1, contract)
       ELSE IF original = current
       THEN IF original = 0
            THEN Result(cost + SstoreSetGasEIP2200, NoErr, db1, contract)
            ELSE LET db2 == IF value = 0 THEN AddRefund(db1, clearingRefund) ELSE db1
                 IN Result(cost + SstoreResetGasEIP2200, NoErr, db2, contract)
       ELSE
       LET sub == SubRefund(db1, clearingRefund)
           db2 == IF original # 0
                  THEN IF current = 0 THEN sub.db
                       ELSE IF value = 0 THEN AddRefund(db1, clearingRefund)
                       ELSE db1
                  ELSE db1
           db3 == IF original = value
                  THEN IF original = 0
                       THEN AddRefund(db2, SstoreSetGasEIP2200 - WarmStorageReadCostEIP2929)
                       ELSE AddRefund(db2, (SstoreResetGasEIP2200 - ColdSloadCostEIP2929)
                                               - WarmStorageReadCostEIP2929)
                  ELSE db2
       IN IF original # 0 /\ current = 0 /\ sub.panic # NoErr
          THEN Result(0, sub.panic, sub.db, contract)
          ELSE Result(cost + WarmStorageReadCostEIP2929, NoErr, db3, contract)

makeGasSStoreFuncSentryBelow(clearingRefund, db, world, contract, stack) ==
    IF contract.gas < SstoreSentryGasEIP2200
    THEN Result(0, ErrSentry, db, contract)
    ELSE
    LET y == Back(stack, 1)
        x == Peek(stack)
        slot == Bytes32(x)
        current == GetState(world, contract.addr, slot)
        present == SlotInAccessList(db, contract.addr, slot)
        cost == IF ~present.slotPresent THEN ColdSloadCostEIP2929 ELSE 0
        db1 == IF ~present.slotPresent
               THEN AddSlotToAccessList(db, contract.addr, slot) ELSE db
        value == Bytes32(y)
        original == GetCommittedState(world, contract.addr, Bytes32(x))
    IN IF ~present.slotPresent /\ ~present.addrPresent
       THEN Result(0, PanicSStore, db1, contract)
       ELSE IF current = value
       THEN Result(cost + WarmStorageReadCostEIP2929, NoErr, db1, contract)
       ELSE IF original = current
       THEN IF original = 0
            THEN Result(cost + SstoreSetGasEIP2200, NoErr, db1, contract)
            ELSE LET db2 == IF value = 0 THEN AddRefund(db1, clearingRefund) ELSE db1
                 IN Result(cost + (SstoreResetGasEIP2200 - ColdSloadCostEIP2929),
                           NoErr, db2, contract)
       ELSE
       LET sub == SubRefund(db1, clearingRefund)
           db2 == IF original # 0
                  THEN IF current = 0 THEN sub.db
                       ELSE IF value = 0 THEN AddRefund(db1, clearingRefund)
                       ELSE db1
                  ELSE db1
           db3 == IF original = value
                  THEN IF original = 0
                       THEN AddRefund(db2, SstoreSetGasEIP2200 - WarmStorageReadCostEIP2929)
                       ELSE AddRefund(db2, (SstoreResetGasEIP2200 - ColdSloadCostEIP2929)
                                               - WarmStorageReadCostEIP2929)
                  ELSE db2
       IN IF original # 0 /\ current = 0 /\ sub.panic # NoErr
          THEN Result(0, sub.panic, sub.db, contract)
          ELSE Result(cost + WarmStorageReadCostEIP2929, NoErr, db3, contract)

makeGasSStoreFuncClearsFromEmpty(clearingRefund, db, world, contract, stack) ==
    IF contract.gas <= SstoreSentryGasEIP2200
    THEN Result(0, ErrSentry, db, contract)
    ELSE
    LET y == Back(stack, 1)
        x == Peek(stack)
        slot == Bytes32(x)
        current == GetState(world, contract.addr, slot)
        present == SlotInAccessList(db, contract.addr, slot)
        cost == IF ~present.slotPresent THEN ColdSloadCostEIP2929 ELSE 0
        db1 == IF ~present.slotPresent
               THEN AddSlotToAccessList(db, contract.addr, slot) ELSE db
        value == Bytes32(y)
        original == GetCommittedState(world, contract.addr, Bytes32(x))
    IN IF ~present.slotPresent /\ ~present.addrPresent
       THEN Result(0, PanicSStore, db1, contract)
       ELSE IF current = value
       THEN Result(cost + WarmStorageReadCostEIP2929, NoErr, db1, contract)
       ELSE IF original = current
       THEN IF original = 0
            THEN Result(cost + SstoreSetGasEIP2200, NoErr, db1, contract)
            ELSE LET db2 == IF value = 0 THEN AddRefund(db1, clearingRefund) ELSE db1
                 IN Result(cost + (SstoreResetGasEIP2200 - ColdSloadCostEIP2929),
                           NoErr, db2, contract)
       ELSE
       LET sub == SubRefund(db1, clearingRefund)
           db2 == IF original # 0 /\ current = 0 THEN sub.db
                  ELSE IF value = 0 THEN AddRefund(db1, clearingRefund)
                  ELSE db1
           db3 == IF original = value
                  THEN IF original = 0
                       THEN AddRefund(db2, SstoreSetGasEIP2200 - WarmStorageReadCostEIP2929)
                       ELSE AddRefund(db2, (SstoreResetGasEIP2200 - ColdSloadCostEIP2929)
                                               - WarmStorageReadCostEIP2929)
                  ELSE db2
       IN IF original # 0 /\ current = 0 /\ sub.panic # NoErr
          THEN Result(0, sub.panic, sub.db, contract)
          ELSE Result(cost + WarmStorageReadCostEIP2929, NoErr, db3, contract)

makeGasSStoreFunc(clearingRefund, db, world, contract, stack) ==
    IF contract.gas <= SstoreSentryGasEIP2200
    THEN Result(0, ErrSentry, db, contract)
    ELSE
    LET y == Back(stack, 1)
        x == Peek(stack)
        slot == Bytes32(x)
        current == GetState(world, contract.addr, slot)
        present == SlotInAccessList(db, contract.addr, slot)
        cost == IF ~present.slotPresent THEN ColdSloadCostEIP2929 ELSE 0
        db1 == IF ~present.slotPresent
               THEN AddSlotToAccessList(db, contract.addr, slot) ELSE db
        value == Bytes32(y)
        original == GetCommittedState(world, contract.addr, Bytes32(x))
    IN IF ~present.slotPresent /\ ~present.addrPresent
       THEN Result(0, PanicSStore, db1, contract)
       ELSE IF current = value
       THEN Result(cost + WarmStorageReadCostEIP2929, NoErr, db1, contract)
       ELSE IF original = current
       THEN IF original = 0
            THEN Result(cost + SstoreSetGasEIP2200, NoErr, db1, contract)
            ELSE LET db2 == IF value = 0 THEN AddRefund(db1, clearingRefund) ELSE db1
                 IN Result(cost + (SstoreResetGasEIP2200 - ColdSloadCostEIP2929),
                           NoErr, db2, contract)
       ELSE
       LET sub == SubRefund(db1, clearingRefund)
           db2 == IF original # 0
                  THEN IF current = 0 THEN sub.db
                       ELSE IF value = 0 THEN AddRefund(db1, clearingRefund)
                       ELSE db1
                  ELSE db1
           db3 == IF original = value
                  THEN IF original = 0
                       THEN AddRefund(db2, SstoreSetGasEIP2200 - WarmStorageReadCostEIP2929)
                       ELSE AddRefund(db2, (SstoreResetGasEIP2200 - ColdSloadCostEIP2929)
                                               - WarmStorageReadCostEIP2929)
                  ELSE db2
       IN IF original # 0 /\ current = 0 /\ sub.panic # NoErr
          THEN Result(0, sub.panic, sub.db, contract)
          ELSE Result(cost + WarmStorageReadCostEIP2929, NoErr, db3, contract)

gasSLoadEIP2929DropsOthers(db, world, contract, stack) ==
    LET loc == Peek(stack)
        slot == Bytes32(loc)
    IN IF ~SlotInAccessList(db, contract.addr, slot).slotPresent
       THEN Result(ColdSloadCostEIP2929, NoErr,
                   [db EXCEPT !.slots = {<<contract.addr, slot>>}], contract)
       ELSE Result(WarmStorageReadCostEIP2929, NoErr, db, contract)

gasSLoadEIP2929NoMark(db, world, contract, stack) ==
    LET loc == Peek(stack)
        slot == Bytes32(loc)
    IN IF ~SlotInAccessList(db, contract.addr, slot).slotPresent
       THEN Result(ColdSloadCostEIP2929, NoErr, db, contract)
       ELSE Result(WarmStorageReadCostEIP2929, NoErr, db, contract)


gasSLoadEIP2929CachesColdCost(db, world, contract, stack) ==
    LET loc == Peek(stack)
        slot == Bytes32(loc)
    IN IF ~SlotInAccessList(db, contract.addr, slot).slotPresent
       THEN Result(ColdSloadCostEIP2929, NoErr,
                   [AddSlotToAccessList(db, contract.addr, slot)
                       EXCEPT !.table[SLOAD].constantGas = ColdSloadCostEIP2929],
                   contract)
       ELSE Result(WarmStorageReadCostEIP2929, NoErr, db, contract)

gasSLoadEIP2929(db, world, contract, stack) ==
    LET loc == Peek(stack)
        slot == Bytes32(loc)
    IN IF ~SlotInAccessList(db, contract.addr, slot).slotPresent
       THEN Result(ColdSloadCostEIP2929, NoErr,
                   AddSlotToAccessList(db, contract.addr, slot), contract)
       ELSE Result(WarmStorageReadCostEIP2929, NoErr, db, contract)

\* the pre-access-list EXTCODECOPY cost is the collaborator's answer
gasExtCodeCopy(db, world, contract, stack) ==
    Result(world.prior.gas, world.prior.err, db, contract)

gasExtCodeCopyEIP2929WarmsFirst(db, world, contract, stack) ==
    LET r == gasExtCodeCopy(db, world, contract, stack)
        addr == Bytes20(Peek(stack))
        db1 == AddAddressToAccessList(db, addr)
        a == SafeAdd(r.cost, ColdAccountAccessCostEIP2929 - WarmStorageReadCostEIP2929)
    IN IF ~AddressInAccessList(db, addr)
       THEN IF r.err # NoErr THEN Result(0, r.err, db1, contract)
            ELSE IF a.overflow THEN Result(0, ErrGasUintOverflow, db1, contract)
            ELSE Result(a.sum, NoErr, db1, contract)
       ELSE IF r.err # NoErr THEN Result(0, r.err, db, contract)
            ELSE Result(r.cost, NoErr, db, contract)

gasExtCodeCopyEIP2929(db, world, contract, stack) ==
    LET r == gasExtCodeCopy(db, world, contract, stack)
        addr == Bytes20(Peek(stack))
    IN IF r.err # NoErr
       THEN Result(0, r.err, db, contract)
       ELSE IF ~AddressInAccessList(db, addr)
       THEN LET db1 == AddAddressToAccessList(db, addr)
                a == SafeAdd(r.cost, ColdAccountAccessCostEIP2929
                                         - WarmStorageReadCostEIP2929)
            IN IF a.overflow
               THEN Result(0, ErrGasUintOverflow, db1, contract)
               ELSE Result(a.sum, NoErr, db1, contract)
       ELSE Result(r.cost, NoErr, db, contract)

gasEip2929AccountCheckFullCold(db, world, contract, stack) ==
    LET addr == Bytes20(Peek(stack))
    IN IF ~AddressInAccessList(db, addr)
       THEN Result(ColdAccountAccessCostEIP2929, NoErr,
                   AddAddressToAccessList(db, addr), contract)
       ELSE Result(0, NoErr, db, contract)

gasEip2929AccountCheck(db, world, contract, stack) ==
    LET addr == Bytes20(Peek(stack))
    IN IF ~AddressInAccessList(db, addr)
       THEN Result(ColdAccountAccessCostEIP2929 - WarmStorageReadCostEIP2929, NoErr,
                   AddAddressToAccessList(db, addr), contract)
       ELSE Result(0, NoErr, db, contract)

\* the pre-access-list call cost: a base cost (memory, value transfer, new
\* account) plus the forwarded gas, capped at 63/64 of what is left after
\* the base cost; the collaborator may also fail
oldCalculator(db, world, contract, stack) ==
    IF world.prior.err # NoErr THEN Result(0, world.prior.err, db, contract)
    ELSE LET left == contract.gas - world.prior.gas
             requested == Peek(stack)
             \* a base cost above the gas left wraps: the cap exceeds any request
             forwarded == IF left >= 0 /\ left - (left \div 64) < requested
                          THEN left - (left \div 64) ELSE requested
         IN Result(world.prior.gas + forwarded, NoErr, db, contract)

makeCallVariantGasCallEIP2929RollsBack(db, world, contract, stack) ==
    LET addr == Bytes20(Back(stack, 1))
        warmAccess == AddressInAccessList(db, addr)
        coldCost == ColdAccountAccessCostEIP2929 - WarmStorageReadCostEIP2929
        db1 == IF ~warmAccess THEN AddAddressToAccessList(db, addr) ELSE db
        used == IF ~warmAccess THEN UseGas(contract, coldCost)
                ELSE [ok |-> TRUE, contract |-> contract]
    IN IF ~used.ok
       THEN Result(0, ErrOutOfGas, db, contract)
       ELSE LET r == oldCalculator(db1, world, used.contract, stack)
            IN IF warmAccess \/ r.err # NoErr
               THEN Result(r.cost, r.err, r.db, r.contract)
               ELSE Result(r.cost + coldCost, NoErr, r.db,
                           [r.contract EXCEPT !.gas = @ + coldCost])

makeCallVariantGasCallEIP2929ChargesAfter(db, world, contract, stack) ==
    LET addr == Bytes20(Back(stack, 1))
        warmAccess == AddressInAccessList(db, addr)
        coldCost == ColdAccountAccessCostEIP2929 - WarmStorageReadCostEIP2929
        db1 == IF ~warmAccess THEN AddAddressToAccessList(db, addr) ELSE db
    IN IF ~warmAccess /\ contract.gas < coldCost
       THEN Result(0, ErrOutOfGas, db1, contract)
       ELSE LET r == oldCalculator(db1, world, contract, stack)
            IN IF warmAccess \/ r.err # NoErr
               THEN Result(r.cost, r.err, r.db, r.contract)
               ELSE Result(r.cost + coldCost, NoErr, r.db, r.contract)

makeCallVariantGasCallEIP2929(db, world, contract, stack) ==
    LET addr == Bytes20(Back(stack, 1))
        warmAccess == AddressInAccessList(db, addr)
        coldCost == ColdAccountAccessCostEIP2929 - WarmStorageReadCostEIP2929
        db1 == IF ~warmAccess THEN AddAddressToAccessList(db, addr) ELSE db
        used == IF ~warmAccess THEN UseGas(contract, coldCost)
                ELSE [ok |-> TRUE, contract |-> contract]
    IN IF ~used.ok
       THEN Result(0, ErrOutOfGas, db1, contract)
       ELSE LET r == oldCalculator(db1, world, used.contract, stack)
            IN IF warmAccess \/ r.err # NoErr
               THEN Result(r.cost, r.err, r.db, r.contract)
               ELSE Result(r.cost + coldCost, NoErr, r.db,
                           [r.contract EXCEPT !.gas = @ + coldCost])

makeSelfdestructGasFnColdMinusWarm(refundsEnabled, db, world, contract, stack) ==
    LET address == Bytes20(Peek(stack))
        cold == ~AddressInAccessList(db, address)
        db1 == IF cold THEN AddAddressToAccessList(db, address) ELSE db
        gas0 == IF cold THEN ColdAccountAccessCostEIP2929 - WarmStorageReadCostEIP2929
                ELSE 0
        gas1 == IF Empty(world, address) /\ GetBalance(world, contract.addr) # 0
                THEN gas0 + CreateBySelfdestructGas ELSE gas0
        db2 == IF refundsEnabled /\ ~HasSuicided(world, contract.addr)
               THEN AddRefund(db1, SelfdestructRefundGas) ELSE db1
    IN Result(gas1, NoErr, db2, contract)

makeSelfdestructGasFnRefundsAgain(refundsEnabled, db, world, contract, stack) ==
    LET address == Bytes20(Peek(stack))
        cold == ~AddressInAccessList(db, address)
        db1 == IF cold THEN AddAddressToAccessList(db, address) ELSE db
        gas0 == IF cold THEN ColdAccountAccessCostEIP2929 ELSE 0
        gas1 == IF Empty(world, address) /\ GetBalance(world, contract.addr) # 0
                THEN gas0 + CreateBySelfdestructGas ELSE gas0
        db2 == IF refundsEnabled
               THEN AddRefund(db1, SelfdestructRefundGas) ELSE db1
    IN Result(gas1, NoErr, db2, contract)

makeSelfdestructGasFn(refundsEnabled, db, world, contract, stack) ==
    LET address == Bytes20(Peek(stack))
        cold == ~AddressInAccessList(db, address)
        db1 == IF cold THEN AddAddressToAccessList(db, address) ELSE db
        gas0 == IF cold THEN ColdAccountAccessCostEIP2929 ELSE 0
        gas1 == IF Empty(world, address) /\ GetBalance(world, contract.addr) # 0
                THEN gas0 + CreateBySelfdestructGas ELSE gas0
        db2 == IF refundsEnabled /\ ~HasSuicided(world, contract.addr)
               THEN AddRefund(db1, SelfdestructRefundGas) ELSE db1
    IN Result(gas1, NoErr, db2, contract)

gasCallEIP2929(db, world, contract, stack) ==
    makeCallVariantGasCallEIP2929(db, world, contract, stack)
gasDelegateCallEIP2929(db, world, contract, stack) ==
    makeCallVariantGasCallEIP2929(db, world, contract, stack)
gasStaticCallEIP2929(db, world, contract, stack) ==
    makeCallVariantGasCallEIP2929(db, world, contract, stack)
gasCallCodeEIP2929(db, world, contract, stack) ==
    makeCallVariantGasCallEIP2929(db, world, contract, stack)
gasSelfdestructEIP2929(db, world, contract, stack) ==
    makeSelfdestructGasFn(TRUE, db, world, contract, stack)
gasSelfdestructEIP3529(db, world, contract, stack) ==
    makeSelfdestructGasFn(FALSE, db, world, contract, stack)
gasSStoreEIP2929(db, world, contract, stack) ==
    makeGasSStoreFunc(SstoreClearsScheduleRefundEIP2200, db, world, contract, stack)
gasSStoreEIP3529Unreduced(db, world, contract, stack) ==
    makeGasSStoreFunc(SstoreClearsScheduleRefundEIP2200, db, world, contract, stack)
gasSStoreEIP3529(db, world, contract, stack) ==
    makeGasSStoreFunc(SstoreClearsScheduleRefundEIP3529, db, world, contract, stack)

\* the functions this core defines, by the name a descriptor holds
AccessListGasFuncs ==
    {"gasSStoreEIP2929", "gasSStoreEIP3529", "gasSLoadEIP2929",
     "gasExtCodeCopyEIP2929", "gasEip2929AccountCheck", "gasCallEIP2929",
     "gasCallCodeEIP2929", "gasStaticCallEIP2929", "gasDelegateCallEIP2929",
     "gasSelfdestructEIP2929", "gasSelfdestructEIP3529"}

\* operation.dynamicGas(evm, contract, stack, mem, memorySize)
dynamicGas(fn, db, world, contract, stack) ==
    CASE fn = "gasSStoreEIP2929" -> gasSStoreEIP2929(db, world, contract, stack)
      [] fn = "gasSStoreEIP3529" -> gasSStoreEIP3529(db, world, contract, stack)
      [] fn = "gasSLoadEIP2929" -> gasSLoadEIP2929(db, world, contract, stack)
      [] fn = "gasExtCodeCopyEIP2929" -> gasExtCodeCopyEIP2929(db, world, contract, stack)
      [] fn = "gasEip2929AccountCheck" -> gasEip2929AccountCheck(db, world, contract, stack)
      [] fn = "gasCallEIP2929" -> gasCallEIP2929(db, world, contract, stack)
      [] fn = "gasCallCodeEIP2929" -> gasCallCodeEIP2929(db, world, contract, stack)
      [] fn = "gasStaticCallEIP2929" -> gasStaticCallEIP2929(db, world, contract, stack)
      [] fn = "gasDelegateCallEIP2929" -> gasDelegateCallEIP2929(db, world, contract, stack)
      [] fn = "gasSelfdestructEIP2929" -> gasSelfdestructEIP2929(db, world, contract, stack)
      [] fn = "gasSelfdestructEIP3529" -> gasSelfdestructEIP3529(db, world, contract, stack)


----------------------------------------------------------------------------
(* Opcode actions that push one word *)

\* uint256.FromBig of a value below 2^256 (the overflow flag is dropped)
FromBig(big) == big

\* Stack.Push
Push(stack, word) == Append(stack, word)

\* the outcome of an opcode action: return data, error, the stack after it
Executed(ret, err, stack, db) == [ret |-> ret, err |-> err, stack |-> stack, db |-> db]

opSelfBalance(db, world, contract, stack) ==
    LET balance == FromBig(GetBalance(world, contract.addr))
    IN Executed(<<>>, NoErr, Push(stack, balance), db)

opChainID(db, world, contract, stack) ==
    LET chainId == FromBig(world.chainID)
    IN Executed(<<>>, NoErr, Push(stack, chainId), db)

opBaseFee(db, world, contract, stack) ==
    LET baseFee == FromBig(world.baseFee)
    IN Executed(<<>>, NoErr, Push(stack, baseFee), db)

opPush0(db, world, contract, stack) ==
    Executed(<<>>, NoErr, Push(stack, 0), db)

PushActions == {"opSelfBalance", "opChainID", "opBaseFee", "opPush0"}

\* operation.execute(&pc, interpreter, scope)
execute(fn, db, world, contract, stack) ==
    CASE fn = "opSelfBalance" -> opSelfBalance(db, world, contract, stack)
      [] fn = "opChainID" -> opChainID(db, world, contract, stack)
      [] fn = "opBaseFee" -> opBaseFee(db, world, contract, stack)
      [] fn = "opPush0" -> opPush0(db, world, contract, stack)


----------------------------------------------------------------------------
(* Stack words, memory and the memory-copy opcode *)

\* a uint256.Int is four 64-bit limbs, the least significant first
Word(lo) == <<lo, 0, 0, 0>>
\* the word lo + 2^64
Wide(lo) == <<lo, 1, 0, 0>>

\* (*uint256.Int).Uint64: the lowest limb, whatever the other limbs hold
Uint64(word) == word[1]

\* Stack.Pop: the top word and the stack without it
Pop(stack) == [val |-> stack[Len(stack)], stack |-> SubSeq(stack, 1, Len(stack) - 1)]

\* x > y on uint64 values kept as residues: the negative residues are the
\* values from 2^64 - 2^31 up
Above(x, y) == IF (x < 0) = (y < 0) THEN x > y ELSE x < 0

\* math.SafeMul(x, y): the wrapped product and whether it overflowed
SafeMul(x, y) ==
    [product |-> x * y,
     overflow |-> \/ (x < 0 /\ y \notin {0, 1})
                  \/ (y < 0 /\ x \notin {0, 1})]

ErrMemoryOverflow == <<"memory overflow">>
ErrMaxInitCodeSizeExceeded ==
    <<"init code size exceeds maximum allowed by EIP-3860">>
PanicMakeslice == <<"panic: runtime error: makeslice: len out of range">>

MemoryGas == 3
QuadCoeffDiv == 512
WordBytes == 32

\* newMemSize > 0x1FFFFFFFE0: of the values kept, those from 2^64 - 2^31 up
AboveMemoryCap(newMemSize) == newMemSize < 0

toWordSize(size) == (size + 31) \div WordBytes

\* the outcome of a memory-metering gas function: the memory keeps the
\* total fee charged so far
Metered(cost, err, mem) == [cost |-> cost, err |-> err, mem |-> mem]
\* the outcome of a dynamic gas function that meters memory: with the table
\* of the interpreter of the EVM it was handed
MeteredBy(table, cost, err, mem) ==
    [cost |-> cost, err |-> err, mem |-> mem, table |-> table]

\* memoryGasCost(mem, newMemSize): the fee of growing to newMemSize rounded
\* up to words, as the difference to the fee charged so far
memoryGasCost(mem, newMemSize) ==
    IF newMemSize = 0 THEN Metered(0, NoErr, mem)
    ELSE IF AboveMemoryCap(newMemSize) THEN Metered(0, ErrGasUintOverflow, mem)
    ELSE LET newMemSizeWords == toWordSize(newMemSize)
             square == newMemSizeWords * newMemSizeWords
             linCoef == newMemSizeWords * MemoryGas
             quadCoef == square \div QuadCoeffDiv
             newTotalFee == linCoef + quadCoef
         IN IF newMemSizeWords * WordBytes > Len(mem.store)
            THEN Metered(newTotalFee - mem.lastGasCost, NoErr,
                         [mem EXCEPT !.lastGasCost = newTotalFee])
            ELSE Metered(0, NoErr, mem)

\* Memory.Resize(size): zero bytes appended up to size
Resize(mem, size) ==
    IF Len(mem.store) < size
    THEN [mem EXCEPT !.store = @ \o [i \in 1..(size - Len(@)) |-> 0]]
    ELSE mem

\* Memory.GetPtr(offset, size): a slice of the store itself (not a copy),
\* nil when size is zero or offset is not inside the store
NilSlice == [nil |-> TRUE, off |-> 0, len |-> 0]
GetPtr(mem, offset, size) ==
    IF size = 0 THEN NilSlice
    ELSE IF Len(mem.store) > offset
         THEN [nil |-> FALSE, off |-> offset, len |-> size]
         ELSE NilSlice

\* Memory.Set(offset, size, value): copy(store[offset:offset+size], value),
\* where value is a slice of this store; the built-in copy reads every
\* source byte as it was before the call, also when the ranges overlap
Set(mem, offset, size, value) ==
    IF size > 0
    THEN [mem EXCEPT !.store =
             [i \in 1..Len(@) |->
                 IF i > offset /\ i <= offset + size
                 THEN @[value.off + (i - offset)] ELSE @[i]]]
    ELSE mem

\* a copy loop that writes each byte before it reads the next one
RECURSIVE CopyForward(_, _, _, _)
CopyForward(store, dst, src, n) ==
    IF n = 0 THEN store
    ELSE CopyForward([store EXCEPT ![dst + 1] = store[src + 1]], dst + 1, src + 1, n - 1)

\* the outcome of the memory-copy action: return data, error, the stack,
\* the memory and the table of the interpreter after it
Copied(table, ret, err, stack, mem) ==
    [ret |-> ret, err |-> err, stack |-> stack, mem |-> mem, table |-> table]

\* the operands as opMCopy pops them: first the length, then the
\* destination offset, then the source offset
opMCopyOperands(stack) ==
    LET p1 == Pop(stack)
        p2 == Pop(p1.stack)
        p3 == Pop(p2.stack)
    IN [length |-> p1.val, dst |-> p2.val, src |-> p3.val, stack |-> p3.stack]

opMCopyBytewise(table, mem, stack) ==
    LET popped == opMCopyOperands(stack)
        length == Uint64(popped.length)
        dst == Uint64(popped.dst)
        src == Uint64(popped.src)
        endSrc == SafeAdd(src, length)
        endDst == SafeAdd(dst, length)
        maxEnd == IF Above(endDst.sum, endSrc.sum) THEN endDst.sum ELSE endSrc.sum
        resized == Resize(mem, maxEnd)
    IN IF length = 0 THEN Copied(table, <<>>, NoErr, popped.stack, mem)
       ELSE IF endSrc.overflow \/ endDst.overflow
            THEN Copied(table, <<>>, ErrMemoryOverflow, popped.stack, mem)
       ELSE IF maxEnd < 0 THEN Copied(table, <<>>, PanicMakeslice, popped.stack, mem)
       ELSE IF GetPtr(resized, src, length).nil
            THEN Copied(table, <<>>, ErrMemoryOverflow, popped.stack, resized)
       ELSE Copied(table, <<>>, NoErr, popped.stack,
                   [resized EXCEPT !.store = CopyForward(@, dst, src, length)])

\* opMCopy: the top of the stack is the length, the word below it the
\* destination offset, the third word the source offset; a Resize beyond
\* what a slice can hold panics in make
opMCopy(table, mem, stack) ==
    LET popped == opMCopyOperands(stack)
        length == Uint64(popped.length)
        dst == Uint64(popped.dst)
        src == Uint64(popped.src)
        endSrc == SafeAdd(src, length)
        endDst == SafeAdd(dst, length)
        maxEnd == IF Above(endDst.sum, endSrc.sum) THEN endDst.sum ELSE endSrc.sum
        resized == Resize(mem, maxEnd)
        srcData == GetPtr(resized, src, length)
    IN IF length = 0 THEN Copied(table, <<>>, NoErr, popped.stack, mem)
       ELSE IF endSrc.overflow \/ endDst.overflow
            THEN Copied(table, <<>>, ErrMemoryOverflow, popped.stack, mem)
       ELSE IF maxEnd < 0 THEN Copied(table, <<>>, PanicMakeslice, popped.stack, mem)
       ELSE IF srcData.nil THEN Copied(table, <<>>, ErrMemoryOverflow, popped.stack, resized)
       ELSE Copied(table, <<>>, NoErr, popped.stack, Set(resized, dst, length, srcData))

\* the operands as gasMCopy reads them: Back(0) the length, Back(1) the
\* source offset, Back(2) the destination offset
gasMCopyOperands(stack) ==
    [length |-> Back(stack, 0), src |-> Back(stack, 1), dst |-> Back(stack, 2)]

copyGasPerByte == 3

gasMCopyPerWord(table, mem, stack) ==
    LET length == Uint64(gasMCopyOperands(stack).length)
        src == Uint64(gasMCopyOperands(stack).src)
        dst == Uint64(gasMCopyOperands(stack).dst)
        endDst == SafeAdd(dst, length)
        endSrc == SafeAdd(src, length)
        maxEnd == IF Above(endSrc.sum, endDst.sum) THEN endSrc.sum ELSE endDst.sum
        memGas == memoryGasCost(mem, maxEnd)
        copyCost == SafeMul(copyGasPerByte, toWordSize(length))
        totalGas == SafeAdd(memGas.cost, copyCost.product)
    IN IF endDst.overflow \/ endSrc.overflow THEN MeteredBy(table, 0, ErrGasUintOverflow, mem)
       ELSE IF memGas.err # NoErr THEN MeteredBy(table, 0, memGas.err, memGas.mem)
       ELSE IF copyCost.overflow THEN MeteredBy(table, 0, ErrGasUintOverflow, memGas.mem)
       ELSE IF totalGas.overflow THEN MeteredBy(table, 0, ErrGasUintOverflow, memGas.mem)
       ELSE MeteredBy(table, totalGas.sum, NoErr, memGas.mem)

\* gasMCopy: memory growth to the larger end, plus three gas per byte
gasMCopy(table, mem, stack) ==
    LET length == Uint64(gasMCopyOperands(stack).length)
        src == Uint64(gasMCopyOperands(stack).src)
        dst == Uint64(gasMCopyOperands(stack).dst)
        endDst == SafeAdd(dst, length)
        endSrc == SafeAdd(src, length)
        maxEnd == IF Above(endSrc.sum, endDst.sum) THEN endSrc.sum ELSE endDst.sum
        memGas == memoryGasCost(mem, maxEnd)
        copyCost == SafeMul(copyGasPerByte, length)
        totalGas == SafeAdd(memGas.cost, copyCost.product)
    IN IF endDst.overflow \/ endSrc.overflow THEN MeteredBy(table, 0, ErrGasUintOverflow, mem)
       ELSE IF memGas.err # NoErr THEN MeteredBy(table, 0, memGas.err, memGas.mem)
       ELSE IF copyCost.overflow THEN MeteredBy(table, 0, ErrGasUintOverflow, memGas.mem)
       ELSE IF totalGas.overflow THEN MeteredBy(table, 0, ErrGasUintOverflow, memGas.mem)
       ELSE MeteredBy(table, totalGas.sum, NoErr, memGas.mem)

maxInitCodeSize == 49152

\* gasCreateEIP3860: the size is the top word, the offset the one below it
gasCreateEIP3860(table, mem, stack) ==
    LET size == Uint64(Back(stack, 0))
        offset == Uint64(Back(stack, 1))
        requiredMemSize == SafeAdd(offset, size)
        memGas == memoryGasCost(mem, requiredMemSize.sum)
        chunkCount == (size + 31) \div 32
        overhead == SafeMul(chunkCount, 2)
        totalGas == SafeAdd(memGas.cost, overhead.product)
    IN IF Above(size, maxInitCodeSize) THEN MeteredBy(table, 0, ErrMaxInitCodeSizeExceeded, mem)
       ELSE IF requiredMemSize.overflow THEN MeteredBy(table, 0, ErrGasUintOverflow, mem)
       ELSE IF memGas.err # NoErr THEN MeteredBy(table, 0, memGas.err, memGas.mem)
       ELSE IF overhead.overflow THEN MeteredBy(table, 0, ErrGasUintOverflow, memGas.mem)
       ELSE IF totalGas.overflow THEN MeteredBy(table, 0, ErrGasUintOverflow, memGas.mem)
       ELSE MeteredBy(table, totalGas.sum, NoErr, memGas.mem)

\* gasCreate2EIP3860: the same computation, declared for CREATE2
gasCreate2EIP3860(table, mem, stack) ==
    LET size == Uint64(Back(stack, 0))
        offset == Uint64(Back(stack, 1))
        requiredMemSize == SafeAdd(offset, size)
        memGas == memoryGasCost(mem, requiredMemSize.sum)
        chunkCount == (size + 31) \div 32
        overhead == SafeMul(chunkCount, 2)
        totalGas == SafeAdd(memGas.cost, overhead.product)
    IN IF Above(size, maxInitCodeSize) THEN MeteredBy(table, 0, ErrMaxInitCodeSizeExceeded, mem)
       ELSE IF requiredMemSize.overflow THEN MeteredBy(table, 0, ErrGasUintOverflow, mem)
       ELSE IF memGas.err # NoErr THEN MeteredBy(table, 0, memGas.err, memGas.mem)
       ELSE IF overhead.overflow THEN MeteredBy(table, 0, ErrGasUintOverflow, memGas.mem)
       ELSE IF totalGas.overflow THEN MeteredBy(table, 0, ErrGasUintOverflow, memGas.mem)
       ELSE MeteredBy(table, totalGas.sum, NoErr, memGas.mem)


----------------------------------------------------------------------------
(* Gas computations in one execution context *)

Pairs == Addrs \X Slots
\* storage slots the transaction writes
NumWriteSlots == 2
WriteSlots == 1..NumWriteSlots
\* the storage keys the collaborator answers for
StorageKeys == Addrs \X (Slots \cup WriteSlots)
StorageValues == {0, 5, 7}

\* the collaborator's answers: the same for every key it is asked about
World(in) ==
    [current |-> [p \in StorageKeys |-> in.current],
     original |-> [p \in StorageKeys |-> in.original],
     empty |-> [a \in Addrs |-> in.empty],
     balance |-> [a \in Addrs |-> in.balance],
     suicided |-> [a \in Addrs |-> in.suicided],
     chainID |-> in.chainID,
     baseFee |-> in.baseFee,
     prior |-> in.prior]

NoPrior == [gas |-> 0, err |-> NoErr]
DefaultIn ==
    [current |-> 0, original |-> 0, empty |-> FALSE, balance |-> 0,
     suicided |-> FALSE, chainID |-> 9000, baseFee |-> 7, prior |-> NoPrior]
DefaultGas == 100000

\* what a gas function or an action reaches through the EVM it is handed:
\* the access list and refund counter of its StateDB, and the table of its
\* interpreter
Ledger ==
    [addrs |-> accessAddrs, slots |-> accessSlots, refund |-> refund, table |-> jt]

\* the interpreter computes the dynamic gas of opcode op through the
\* descriptor the frozen table holds for it
GasStep(op, self, gas, stack, in) ==
    LET fn == jt[op].dynamicGas
        r == dynamicGas(fn, Ledger, World(in), [addr |-> self, gas |-> gas], stack)
    IN /\ fn \in AccessListGasFuncs
       /\ accessAddrs' = r.db.addrs
       /\ accessSlots' = r.db.slots
       /\ refund' = r.db.refund
       /\ last' = [op |-> op, fn |-> fn, self |-> self, stack |-> stack, in |-> in,
                   gasIn |-> gas, gasOut |-> r.contract.gas,
                   cost |-> r.cost, err |-> r.err,
                   addrsIn |-> accessAddrs, slotsIn |-> accessSlots,
                   refundIn |-> refund, seenIn |-> seen]
       /\ UNCHANGED <<memory, kvStore>>
       /\ jt' = r.db.table
       /\ UNCHANGED <<base, baseNow, shared, ids, pos, pass, prevJt, berr, called,
                        applied, built>>
       /\ UNCHANGED nameVars

SLoadStep ==
    \E self \in accessAddrs, slot \in Slots :
        /\ GasStep(SLOAD, self, DefaultGas, <<slot>>, DefaultIn)
        /\ seen' = [seen EXCEPT !.sloads = @ \cup {<<self, slot>>}]

AccountCheckOps == {BALANCE, EXTCODESIZE, EXTCODEHASH}

AccountCheckStep ==
    \E op \in AccountCheckOps, self \in accessAddrs, addr \in Addrs :
        /\ GasStep(op, self, DefaultGas, <<addr>>, DefaultIn)
        /\ seen' = [seen EXCEPT !.checks = @ \cup {addr}, !.ops = @ \cup {op}]

PriorCopyCosts ==
    {[gas |-> 0, err |-> NoErr], [gas |-> 9, err |-> NoErr],
     [gas |-> MaxUint64 - 2500, err |-> NoErr],
     [gas |-> MaxUint64 - 2499, err |-> NoErr],
     [gas |-> 0, err |-> ErrGasUintOverflow]}

\* stack of EXTCODECOPY: address on top, then memory offset, code offset, length
ExtCodeCopyStep ==
    \E addr \in Addrs, prior \in PriorCopyCosts :
        /\ GasStep(EXTCODECOPY, TxDest, DefaultGas, <<0, 0, 0, addr>>,
                   [DefaultIn EXCEPT !.prior = prior])
        /\ UNCHANGED seen

CallOps == {CALL, CALLCODE, DELEGATECALL, STATICCALL}
\* gas left around the cold surcharge of a call
CallGasInputs == {0, 2499, 2500, 100000}
PriorCallCosts ==
    {[gas |-> 0, err |-> NoErr], [gas |-> 9000, err |-> NoErr],
     [gas |-> 0, err |-> ErrGasUintOverflow]}

\* stack of a call: requested gas on top, then the callee address
CallStep ==
    \E op \in CallOps, addr \in Addrs, gas \in CallGasInputs,
       prior \in PriorCallCosts, requested \in {0, 100000} :
        /\ GasStep(op, TxDest, gas, <<addr, requested>>,
                   [DefaultIn EXCEPT !.prior = prior])
        /\ seen' = [seen EXCEPT !.coldOOG =
                        IF addr \notin accessAddrs /\ last'.err = ErrOutOfGas
                           /\ last'.gasOut = gas /\ gas < 2500
                        THEN @ \cup {addr} ELSE @]

SelfdestructStep ==
    \E self \in accessAddrs, addr \in Addrs, empty \in BOOLEAN,
       balance \in {0, 1}, suicided \in BOOLEAN :
        /\ GasStep(SELFDESTRUCT, self, DefaultGas, <<addr>>,
                   [DefaultIn EXCEPT !.empty = empty, !.balance = balance,
                                     !.suicided = suicided])
        /\ UNCHANGED seen

\* gas left around the reentrancy sentry
SStoreGasInputs == {0, 2300, 2301, 100000}

\* stack of SSTORE: slot on top, then the value
\* the clearing refund of the schedule the table installs
ScheduleClearingRefund ==
    IF jt[SSTORE].dynamicGas = "gasSStoreEIP2929"
    THEN SstoreClearsScheduleRefundEIP2200 ELSE SstoreClearsScheduleRefundEIP3529

\* a slot that holds zero in place of a nonzero original value was cleared
\* earlier in the transaction, and the clearing refund granted then is in
\* the accumulator
ClearedSlotRefunded(original, current) ==
    (original # 0 /\ current = 0) => refund >= ScheduleClearingRefund

SStoreStep ==
    \E self \in accessAddrs, slot \in Slots, gas \in SStoreGasInputs,
       original \in StorageValues, current \in StorageValues,
       value \in StorageValues :
        /\ ClearedSlotRefunded(original, current)
        /\ GasStep(SSTORE, self, gas, <<value, slot>>,
                   [DefaultIn EXCEPT !.original = original, !.current = current])
        /\ seen' = [seen EXCEPT !.sstores =
                        IF last'.err = ErrSentry THEN @ ELSE @ \cup {<<self, slot>>}]

\* the interpreter runs the action the frozen table holds for opcode op;
\* the action gets the ledger through the interpreter and hands none back
ExecuteStep(op, self, stack, in) ==
    LET fn == jt[op].execute
        r == execute(fn, Ledger, World(in), [addr |-> self, gas |-> DefaultGas], stack)
    IN /\ fn \in PushActions
       /\ accessAddrs' = r.db.addrs
       /\ accessSlots' = r.db.slots
       /\ refund' = r.db.refund
       /\ last' = [op |-> op, fn |-> fn, self |-> self, stack |-> stack, in |-> in,
                   ret |-> r.ret, err |-> r.err, stackOut |-> r.stack,
                   addrsIn |-> accessAddrs, slotsIn |-> accessSlots,
                   refundIn |-> refund, seenIn |-> seen]
       /\ UNCHANGED <<memory, kvStore>>
       /\ jt' = r.db.table
       /\ UNCHANGED <<base, baseNow, shared, ids, pos, pass, prevJt, berr, called,
                        applied, built>>
       /\ UNCHANGED nameVars

PushStep ==
    \E op \in {SELFBALANCE, CHAINID, BASEFEE, PUSH0}, stack \in {<<>>, <<5>>},
       in \in {DefaultIn, [DefaultIn EXCEPT !.balance = 1, !.chainID = 9001,
                                            !.baseFee = 0]} :
        /\ ExecuteStep(op, TxDest, stack, in)
        /\ UNCHANGED seen

\* the table of a protocol version with the access-list feature
BerlinTable == ApplyAll(SubSeq(HistoricalOrder, 1, 4), LegacyTable(200))

\* a fresh context: only the transaction's destination is warm
AccessInit ==
    /\ accessAddrs = {TxDest}
    /\ accessSlots = {}
    /\ refund = 0
    /\ memory = NewMemory
    /\ kvStore = NilBytes
    /\ last = NotInLedger
    /\ seen = NothingSeen
    /\ jt \in {BerlinTable, FrozenTable}
    /\ base = NotInBuilder
    /\ baseNow = NotInBuilder
    /\ shared = {}
    /\ prevJt = NotInBuilder
    /\ ids = <<>>
    /\ pos = 0
    /\ pass = 1
    /\ berr = NoErr
    /\ called = <<>>
    /\ applied = <<>>
    /\ built = <<>>
    /\ name = NotInNames
    /\ vres = <<>>
    /\ lres = <<>>

AccessNext == SLoadStep \/ AccountCheckStep

\* sequences of SLOAD and account-check gas computations in one context
SpecAccess == AccessInit /\ [][AccessNext]_vars

\* a context in any state a transaction can reach, about to meter an opcode
LedgerInit ==
    /\ accessAddrs \in {S \in SUBSET Addrs : TxDest \in S}
    /\ accessSlots \in SUBSET (accessAddrs \X Slots)
    /\ refund \in {0, SstoreSetGasEIP2200 - WarmStorageReadCostEIP2929}
    /\ memory = NewMemory
    /\ kvStore = NilBytes
    /\ last = NotInLedger
    /\ seen = NothingSeen
    /\ jt \in {BerlinTable, FrozenTable}
    /\ base = NotInBuilder
    /\ baseNow = NotInBuilder
    /\ shared = {}
    /\ prevJt = NotInBuilder
    /\ ids = <<>>
    /\ pos = 0
    /\ pass = 1
    /\ berr = NoErr
    /\ called = <<>>
    /\ applied = <<>>
    /\ built = <<>>
    /\ name = NotInNames
    /\ vres = <<>>
    /\ lres = <<>>

\* no opcode has been metered in this context yet
Unmetered == last = NotInLedger

LedgerNext ==
    \/ Unmetered /\ SLoadStep
    \/ Unmetered /\ AccountCheckStep
    \/ Unmetered /\ ExtCodeCopyStep
    \/ Unmetered /\ CallStep
    \/ Unmetered /\ SelfdestructStep
    \/ Unmetered /\ SStoreStep
    \/ Unmetered /\ PushStep

\* one gas computation or opcode action from every ledger state
SpecLedger == LedgerInit /\ [][LedgerNext]_vars

\* the refund counter a sequence of computations may build up
MaxRefund == 5000

\* the computations are those on the first slot of the executing contract
StorageNext ==
    \/ SLoadStep /\ Peek(last'.stack) = 1
    \/ SStoreStep /\ Peek(last'.stack) = 1 /\ refund' \in 0..MaxRefund

\* sequences of SLOAD and SSTORE gas computations on one pair in one context
SpecStorage == AccessInit /\ [][StorageNext]_vars

\* a SELFDESTRUCT is metered and then executes: the collaborator reports
\* the executing contract as self-destructed from then on
SelfdestructRun ==
    \E self \in accessAddrs, addr \in Addrs, empty \in BOOLEAN, balance \in {0, 1},
       gas \in {0, DefaultGas} :
        /\ GasStep(SELFDESTRUCT, self, gas, <<addr>>,
                   [DefaultIn EXCEPT !.empty = empty, !.balance = balance,
                                     !.suicided = self \in seen.destructed])
        /\ seen' = [seen EXCEPT !.destructed = @ \cup {self}]

\* sequences of SELFDESTRUCT executions in one transaction
SpecSelfdestruct == AccessInit /\ [][SelfdestructRun]_vars

\* sequences of call-variant gas computations in one context
SpecCalls == AccessInit /\ [][CallStep]_vars

----------------------------------------------------------------------------
(* SSTOREs of one transaction on the storage of the executing contract *)

\* SSTOREs in one transaction
MaxWrites == 4

\* the transaction starts with every slot holding its committed value;
\* seen keeps, per slot of the executing contract, the committed value, the
\* value written last, and the clearing refunds added less those subtracted
WritesInit ==
    /\ \E committed \in [WriteSlots -> StorageValues] :
          seen = [NothingSeen EXCEPT !.original = committed, !.current = committed,
                                     !.clears = [s \in WriteSlots |-> 0]]
    /\ accessAddrs = {TxDest}
    /\ accessSlots = {}
    /\ refund = 0
    /\ memory = NewMemory
    /\ kvStore = NilBytes
    /\ last = NotInLedger
    /\ jt \in {BerlinTable, FrozenTable}
    /\ base = NotInBuilder
    /\ baseNow = NotInBuilder
    /\ shared = {}
    /\ prevJt = NotInBuilder
    /\ ids = <<>>
    /\ pos = 0
    /\ pass = 1
    /\ berr = NoErr
    /\ called = <<>>
    /\ applied = <<>>
    /\ built = <<>>
    /\ name = NotInNames
    /\ vres = <<>>
    /\ lres = <<>>

\* the clearing refunds in a change of the accumulator: a change is at most
\* one clearing refund, added or subtracted, plus at most one reset refund
ClearsIn(delta, clearing) ==
    CHOOSE k \in {-1, 0, 1} :
        \E reset \in {0, SstoreSetGasEIP2200 - WarmStorageReadCostEIP2929,
                      (SstoreResetGasEIP2200 - ColdSloadCostEIP2929)
                          - WarmStorageReadCostEIP2929} :
            delta = k * clearing + reset

\* SSTORE is metered against the values the storage holds, then the value
\* is written
WriteStep ==
    \E slot \in WriteSlots, value \in StorageValues :
        /\ seen.writes < MaxWrites
        /\ GasStep(SSTORE, TxDest, DefaultGas, <<value, slot>>,
                   [DefaultIn EXCEPT !.original = seen.original[slot],
                                     !.current = seen.current[slot]])
        /\ seen' = [seen EXCEPT !.sstores = @ \cup {<<TxDest, slot>>},
                                !.current[slot] = value,
                                !.clears[slot] =
                                    @ + ClearsIn(refund' - refund, ScheduleClearingRefund),
                                !.writes = @ + 1]

\* sequences of SSTOREs, each followed by its write, in one transaction
SpecWrites == WritesInit /\ [][WriteStep]_vars

----------------------------------------------------------------------------
(* The memory-copy opcode and the initcode gas functions on one memory *)

\* words of the largest memory an opcode starts from
MaxMemWords == 2

\* a memory of n bytes holding 1, 2, ..., n, charged for up to its size
MemoryOf(n) ==
    [store |-> [i \in 1..n |-> i],
     lastGasCost |-> memoryGasCost(NewMemory, n).mem.lastGasCost]

MemoryInputs ==
    {MemoryOf(WordBytes * w) : w \in 0..MaxMemWords} \cup {MemoryOf(WordBytes + 1)}

\* offsets and lengths around the word boundaries, near 2^64 and above it
OffsetInputs ==
    {Word(0), Word(1), Word(32), Word(33), Word(704), Word(-32), Word(MaxUint64),
     Wide(0)}
LengthInputs ==
    {Word(0), Word(1), Word(32), Word(33), Word(64), Word(MaxUint64), Wide(0),
     Wide(32)}
SizeInputs ==
    {Word(0), Word(1), Word(32), Word(33), Word(maxInitCodeSize),
     Word(maxInitCodeSize + 1), Word(MaxUint64), Wide(5)}

MemoryGasFuncs == {"gasMCopy", "gasCreateEIP3860", "gasCreate2EIP3860"}

\* operation.dynamicGas(evm, contract, stack, mem, memorySize) of the
\* functions that meter memory
memoryGas(fn, table, mem, stack) ==
    CASE fn = "gasMCopy" -> gasMCopy(table, mem, stack)
      [] fn = "gasCreateEIP3860" -> gasCreateEIP3860(table, mem, stack)
      [] fn = "gasCreate2EIP3860" -> gasCreate2EIP3860(table, mem, stack)

MemoryInit ==
    /\ memory \in MemoryInputs
    /\ kvStore = NilBytes
    /\ accessAddrs = {TxDest}
    /\ accessSlots = {}
    /\ refund = 0
    /\ last = NotInLedger
    /\ seen = NothingSeen
    /\ jt = FrozenTable
    /\ base = NotInBuilder
    /\ baseNow = NotInBuilder
    /\ shared = {}
    /\ prevJt = NotInBuilder
    /\ ids = <<>>
    /\ pos = 0
    /\ pass = 1
    /\ berr = NoErr
    /\ called = <<>>
    /\ applied = <<>>
    /\ built = <<>>
    /\ name = NotInNames
    /\ vres = <<>>
    /\ lres = <<>>

\* the interpreter meters MCOPY through the frozen table, charges the
\* contract, and runs the action only when both succeeded; the descriptor
\* has no memory-size function, so nothing is resized in between
MCopyOn(stack) ==
        LET fn == jt[MCOPY].dynamicGas
            g == memoryGas(fn, jt, memory, stack)
            paid == UseGas([addr |-> TxDest, gas |-> DefaultGas], g.cost)
            ran == g.err = NoErr /\ paid.ok
            x == IF ran THEN opMCopy(g.table, g.mem, stack)
                 ELSE Copied(g.table, <<>>, ErrOutOfGas, stack, g.mem)
        IN /\ fn \in MemoryGasFuncs
           /\ jt[MCOPY].execute = "opMCopy"
           /\ memory' = x.mem
           /\ UNCHANGED kvStore
           /\ last' = [op |-> MCOPY, step |-> "MCopyStep",
                       fn |-> fn, stack |-> stack, memIn |-> memory,
                       cost |-> g.cost, gasErr |-> g.err, memGas |-> g.mem,
                       ran |-> ran, ret |-> x.ret, err |-> x.err,
                       stackOut |-> x.stack]
           /\ UNCHANGED <<accessAddrs, accessSlots, refund, seen>>
           /\ jt' = x.table
           /\ UNCHANGED <<base, baseNow, shared, ids, pos, pass, prevJt, berr, called,
                        applied, built>>
           /\ UNCHANGED nameVars

MCopyStep ==
    \E length \in LengthInputs, dst \in OffsetInputs, src \in OffsetInputs :
        MCopyOn(<<src, dst, length>>)

\* the action of MCOPY alone, on a stack that may hold a word below the
\* three operands
OpMCopyStep ==
    \E length \in LengthInputs, dst \in OffsetInputs, src \in OffsetInputs,
       below \in {<<>>, <<Word(5)>>} :
        LET stack == below \o <<src, dst, length>>
            fn == jt[MCOPY].execute
            x == opMCopy(jt, memory, stack)
        IN /\ fn = "opMCopy"
           /\ memory' = x.mem
           /\ UNCHANGED kvStore
           /\ last' = [op |-> MCOPY, step |-> "OpMCopyStep",
                       fn |-> fn, stack |-> stack, memIn |-> memory,
                       ret |-> x.ret, err |-> x.err, stackOut |-> x.stack]
           /\ UNCHANGED <<accessAddrs, accessSlots, refund, seen>>
           /\ jt' = x.table
           /\ UNCHANGED <<base, baseNow, shared, ids, pos, pass, prevJt, berr, called,
                        applied, built>>
           /\ UNCHANGED nameVars

\* the gas function of MCOPY alone
GasMCopyStep ==
    \E length \in LengthInputs, dst \in OffsetInputs, src \in OffsetInputs :
        LET stack == <<src, dst, length>>
            g == memoryGas("gasMCopy", jt, memory, stack)
        IN /\ memory' = g.mem
           /\ UNCHANGED kvStore
           /\ last' = [op |-> MCOPY, step |-> "GasMCopyStep",
                       fn |-> "gasMCopy", stack |-> stack,
                       memIn |-> memory, cost |-> g.cost, err |-> g.err]
           /\ UNCHANGED <<accessAddrs, accessSlots, refund, seen>>
           /\ jt' = g.table
           /\ UNCHANGED <<base, baseNow, shared, ids, pos, pass, prevJt, berr, called,
                        applied, built>>
           /\ UNCHANGED nameVars

\* the initcode gas functions: no activator installs them, they are called
\* on a stack holding the value, the offset and, on top, the size
CreateGasStep ==
    \E fn \in {"gasCreateEIP3860", "gasCreate2EIP3860"},
       size \in SizeInputs, offset \in OffsetInputs :
        LET stack == <<Word(0), offset, size>>
            g == memoryGas(fn, jt, memory, stack)
        IN /\ memory' = g.mem
           /\ UNCHANGED kvStore
           /\ last' = [op |-> IF fn = "gasCreateEIP3860" THEN "CREATE" ELSE "CREATE2",
                       fn |-> fn, stack |-> stack, memIn |-> memory,
                       cost |-> g.cost, err |-> g.err]
           /\ UNCHANGED <<accessAddrs, accessSlots, refund, seen>>
           /\ jt' = g.table
           /\ UNCHANGED <<base, baseNow, shared, ids, pos, pass, prevJt, berr, called,
                        applied, built>>
           /\ UNCHANGED nameVars

MemoryNext ==
    \/ Unmetered /\ MCopyStep
    \/ Unmetered /\ OpMCopyStep
    \/ Unmetered /\ GasMCopyStep
    \/ Unmetered /\ CreateGasStep

\* one memory-metering gas computation or memory-copy action from every
\* memory
SpecMemory == MemoryInit /\ [][MemoryNext]_vars


----------------------------------------------------------------------------
(* Claims about the access-list ledger *)

\* C8: in a context where only SLOAD gas computations touch storage slots,
\* the first computation for an (address, slot) pair returns the cold cost
\* 2100 and leaves the pair warm, and every later computation for the pair
\* returns the warm cost 100, whatever other pairs were accessed between.
C8_SLoadColdThenWarm ==
    /\ last.op = SLOAD =>
          LET pair == <<last.self, Peek(last.stack)>>
          IN /\ last.err = NoErr
             /\ pair \notin last.seenIn.sloads => last.cost = 2100
             /\ pair \in last.seenIn.sloads => last.cost = 100
             /\ pair \in accessSlots
    /\ seen.sloads \subseteq accessSlots

C8_Witness ==
    /\ last.op = SLOAD
    /\ <<last.self, Peek(last.stack)>> \in last.seenIn.sloads
    /\ last.seenIn.sloads = Pairs
    /\ last.cost = 100

\* C9: for BALANCE, EXTCODESIZE and EXTCODEHASH the dynamic charge is
\* 2600 - 100 = 2500 when the address is cold, and the address is warm
\* afterwards; it is 0 when the address is warm; the three opcodes share the
\* warmth, so an address one of them has accessed costs the others nothing.
C9_AccountCheck ==
    last.op \in AccountCheckOps =>
        LET addr == Peek(last.stack)
        IN /\ last.err = NoErr
           /\ last.fn = "gasEip2929AccountCheck"
           /\ addr \notin last.addrsIn => last.cost = 2500
           /\ addr \in last.addrsIn => last.cost = 0
           /\ addr \in accessAddrs
           /\ addr \in last.seenIn.checks => last.cost = 0
           /\ 2500 = ColdAccountAccessCostEIP2929 - jt[last.op].constantGas

C9_Witness ==
    /\ last.op = EXTCODEHASH
    /\ Peek(last.stack) # TxDest
    /\ Peek(last.stack) \in last.seenIn.checks
    /\ last.seenIn.ops = {BALANCE}
    /\ last.cost = 0

\* C10: access-list membership is monotonic: after every gas computation
\* and opcode action, failed or not, the warm addresses and the warm
\* (address, slot) pairs include those warm before it.
C10_AccessListMonotonic ==
    [][accessAddrs \subseteq accessAddrs' /\ accessSlots \subseteq accessSlots']_vars

C10_Witness ==
    /\ last.op \in CallOps
    /\ last.err = ErrOutOfGas
    /\ last.addrsIn # accessAddrs
    /\ last.addrsIn \subseteq accessAddrs
    /\ last.slotsIn # {}
    /\ last.slotsIn = accessSlots


----------------------------------------------------------------------------
(* Claims about the call-variant gas functions *)

\* C11: for CALL, CALLCODE, DELEGATECALL and STATICCALL the gas function
\* returns the prior function's result unchanged when the callee is warm;
\* when the callee is cold the prior function runs with the available gas
\* reduced by 2500 and the cost returned is its result plus 2500; on a
\* successful return the available gas is what it was before the
\* invocation and the callee is warm.
C11_CallVariantSurcharge ==
    last.op \in CallOps =>
        LET callee == Bytes20(Back(last.stack, 1))
            db == [addrs |-> last.addrsIn, slots |-> last.slotsIn,
                   refund |-> last.refundIn, table |-> jt]
            prior(g) == oldCalculator(db, World(last.in),
                                      [addr |-> last.self, gas |-> g], last.stack)
        IN /\ last.fn \in {"gasCallEIP2929", "gasCallCodeEIP2929",
                           "gasDelegateCallEIP2929", "gasStaticCallEIP2929"}
           /\ callee \in last.addrsIn =>
                 /\ last.cost = prior(last.gasIn).cost
                 /\ last.err = prior(last.gasIn).err
           /\ (callee \notin last.addrsIn /\ last.err = NoErr) =>
                 /\ last.gasIn >= 2500
                 /\ prior(last.gasIn - 2500).err = NoErr
                 /\ last.cost = prior(last.gasIn - 2500).cost + 2500
           /\ (/\ callee \notin last.addrsIn
               /\ last.gasIn >= 2500
               /\ prior(last.gasIn - 2500).err = NoErr) => last.err = NoErr
           /\ last.err = NoErr =>
                 /\ last.gasOut = last.gasIn
                 /\ callee \in accessAddrs

\* a cold callee where the 63/64 cap binds: 9000 + (88500 - 1382) + 2500
C11_Witness ==
    /\ last.op = DELEGATECALL
    /\ Back(last.stack, 1) \notin last.addrsIn
    /\ last.gasIn = 100000
    /\ last.in.prior = [gas |-> 9000, err |-> NoErr]
    /\ Peek(last.stack) = 100000
    /\ last.err = NoErr
    /\ last.cost = 98618
    /\ last.gasOut = 100000


\* C12: with a cold callee and less than 2500 gas available the
\* call-variant gas function returns out-of-gas with cost 0, whatever the
\* prior cost function would have returned, deducts nothing, and leaves the
\* callee warm; a later call-variant computation for that callee in the
\* same context returns the prior function's result with no surcharge.
C12_ColdCalleeOutOfGas ==
    last.op \in CallOps =>
        LET callee == Bytes20(Back(last.stack, 1))
            db == [addrs |-> last.addrsIn, slots |-> last.slotsIn,
                   refund |-> last.refundIn, table |-> jt]
            prior == oldCalculator(db, World(last.in),
                                   [addr |-> last.self, gas |-> last.gasIn],
                                   last.stack)
        IN /\ (callee \notin last.addrsIn /\ last.gasIn < 2500) =>
                 /\ last.err = ErrOutOfGas
                 /\ last.cost = 0
                 /\ last.gasOut = last.gasIn
                 /\ callee \in accessAddrs
           /\ callee \in last.seenIn.coldOOG =>
                 /\ callee \in last.addrsIn
                 /\ last.cost = prior.cost
                 /\ last.err = prior.err
                 /\ last.gasOut = last.gasIn

C12_Witness ==
    /\ last.op = STATICCALL
    /\ Back(last.stack, 1) \in last.seenIn.coldOOG
    /\ Back(last.stack, 1) # TxDest
    /\ last.gasIn = 100000
    /\ last.in.prior = [gas |-> 9000, err |-> NoErr]
    /\ Peek(last.stack) = 0
    /\ last.err = NoErr
    /\ last.cost = 9000

\* C13 as stated: whenever a dynamic gas function returns an error, the
\* contract's available gas equals its value before the invocation.
C13_NoPartialChargeOnError ==
    (last.op # "none" /\ last.fn \in AccessListGasFuncs /\ last.err # NoErr) =>
        last.gasOut = last.gasIn


----------------------------------------------------------------------------
(* Claims about the SSTORE gas function *)

\* C14: with at most 2300 gas available the SSTORE gas function returns the
\* reentrancy-sentry error with cost 0 whatever the stack and the storage
\* hold, and leaves the access list, the refund accumulator and the gas as
\* they were; with 2301 gas the sentry passes and the write is classified.
C14_SStoreSentry ==
    last.op = SSTORE =>
        /\ last.gasIn <= 2300 =>
              /\ last.err = ErrSentry
              /\ last.cost = 0
              /\ accessSlots = last.slotsIn
              /\ accessAddrs = last.addrsIn
              /\ refund = last.refundIn
              /\ last.gasOut = last.gasIn
        /\ last.gasIn >= 2301 =>
              /\ last.err = NoErr
              /\ last.cost >= 100
              /\ <<last.self, Peek(last.stack)>> \in accessSlots

C14_Witness ==
    /\ last.op = SSTORE
    /\ last.gasIn = 2300
    /\ last.err = ErrSentry
    /\ <<last.self, Peek(last.stack)>> \notin accessSlots
    /\ last.in.original = 5
    /\ last.in.current = 5
    /\ Back(last.stack, 1) = 0
    /\ refund = last.refundIn


\* C15: leaving the cold surcharge aside, the SSTORE dynamic gas is 100
\* when current = value; 20000 when original = current = 0 and value differs
\* from current; 2900 (5000 - 2100) when original = current, original is
\* nonzero and value differs from current; and 100 in every remaining case.
C15_SStoreClassification ==
    (last.op = SSTORE /\ last.err = NoErr) =>
        LET original == last.in.original
            current == last.in.current
            value == Back(last.stack, 1)
            surcharge == IF <<last.self, Peek(last.stack)>> \in last.slotsIn
                         THEN 0 ELSE 2100
            charge == last.cost - surcharge
        IN /\ current = value => charge = 100
           /\ (current # value /\ original = current /\ original = 0)
                 => charge = 20000
           /\ (current # value /\ original = current /\ original # 0)
                 => charge = 2900
           /\ (current # value /\ original # current) => charge = 100

C15_Witness ==
    /\ last.op = SSTORE
    /\ last.err = NoErr
    /\ last.in.original = 5
    /\ last.in.current = 5
    /\ Back(last.stack, 1) = 7
    /\ <<last.self, Peek(last.stack)>> \in last.slotsIn
    /\ last.cost = 2900


\* C16: across SLOAD and SSTORE gas computations on a pair in one context,
\* the 2100 cold surcharge is part of the cost of exactly the first
\* computation that gets to the access-list check (an SSTORE stopped by the
\* sentry does not), whichever classification branch an SSTORE takes, and
\* of none after it.
C16_ColdSurchargeOnce ==
    (last.op \in {SLOAD, SSTORE} /\ last.err # ErrSentry) =>
        LET pair == <<last.self, Peek(last.stack)>>
            first == pair \notin (last.seenIn.sloads \cup last.seenIn.sstores)
        IN /\ last.err = NoErr
           /\ pair \in accessSlots
           /\ first <=> pair \notin last.slotsIn
           /\ (last.op = SLOAD /\ first) => last.cost = 2100
           /\ (last.op = SLOAD /\ ~first) => last.cost = 100
           /\ (last.op = SSTORE /\ first) =>
                 last.cost \in {100 + 2100, 20000 + 2100, 2900 + 2100}
           /\ (last.op = SSTORE /\ ~first) => last.cost \in {100, 20000, 2900}

C16_Witness ==
    /\ last.op = SLOAD
    /\ <<last.self, Peek(last.stack)>> \in last.seenIn.sstores
    /\ <<last.self, Peek(last.stack)>> \notin last.seenIn.sloads
    /\ last.cost = 100


\* the clearing refund of the schedule the metered SSTORE ran under
ClearingRefund == IF last.fn = "gasSStoreEIP2929" THEN 15000 ELSE 4800

\* what the metered SSTORE added to the refund accumulator
RefundDelta == refund - last.refundIn

SStoreDone == last.op = SSTORE /\ last.err = NoErr

\* C17: an SSTORE that is a no-op (current = value) or that writes a slot
\* whose current value equals its original value changes the refund
\* accumulator only when original is nonzero and value is zero, and the
\* change is then one clearing refund: a clearing write of an unchanged
\* nonzero slot adds exactly one clearing refund, and a fresh-slot write
\* (original = current = 0, value nonzero) adds nothing.
C17_RefundOnUnchangedSlot ==
    LET original == last.in.original
        current == last.in.current
        value == Back(last.stack, 1)
    IN (SStoreDone /\ (current = value \/ original = current)) =>
          /\ RefundDelta # 0 =>
                /\ original # 0
                /\ value = 0
                /\ RefundDelta = ClearingRefund
          /\ (original = current /\ original # 0 /\ value = 0) =>
                RefundDelta = ClearingRefund
          /\ (original = 0 /\ current = 0) => RefundDelta = 0
          /\ current = value => RefundDelta = 0

C17_Witness ==
    /\ SStoreDone
    /\ last.in.original = 5
    /\ last.in.current = 5
    /\ Back(last.stack, 1) = 0
    /\ last.fn = "gasSStoreEIP3529"
    /\ last.refundIn = 19900
    /\ refund = 24700

\* C18 as stated: whenever original differs from current, current is
\* nonzero and value is zero, the SSTORE gas function adds the clearing
\* refund to the accumulator.
C18_AsStated ==
    LET original == last.in.original
        current == last.in.current
        value == Back(last.stack, 1)
    IN (SStoreDone /\ original # current /\ current # 0 /\ value = 0) =>
          RefundDelta = ClearingRefund

\* C18 amended: whenever original is nonzero and differs from current,
\* current is nonzero and value is zero, the SSTORE gas function adds the
\* clearing refund; when original is zero (current nonzero, value zero) it
\* adds no clearing refund but the reset-to-original refund 19900.
C18_DirtyClearRefund ==
    LET original == last.in.original
        current == last.in.current
        value == Back(last.stack, 1)
    IN (SStoreDone /\ original # current /\ current # 0 /\ value = 0) =>
          /\ original # 0 => RefundDelta = ClearingRefund
          /\ original = 0 => RefundDelta = 19900

C18_Witness ==
    /\ SStoreDone
    /\ last.in.original = 5
    /\ last.in.current = 7
    /\ Back(last.stack, 1) = 0
    /\ last.fn = "gasSStoreEIP2929"
    /\ last.refundIn = 0
    /\ refund = 15000

\* C19: an SSTORE with original nonzero, current zero and value nonzero
\* subtracts the clearing refund exactly once, whether or not value equals
\* original; when value equals original it also adds the reset-to-original
\* refund, so the net change is minus the clearing refund plus 2800.
C19_RecreateReversesRefund ==
    LET original == last.in.original
        current == last.in.current
        value == Back(last.stack, 1)
    IN (SStoreDone /\ original # 0 /\ current = 0 /\ value # 0) =>
          /\ value # original => RefundDelta = 0 - ClearingRefund
          /\ value = original => RefundDelta = 2800 - ClearingRefund

C19_Witness ==
    /\ SStoreDone
    /\ last.in.original = 5
    /\ last.in.current = 0
    /\ Back(last.stack, 1) = 5
    /\ last.fn = "gasSStoreEIP2929"
    /\ last.refundIn = 19900
    /\ refund = 19900 - 15000 + 2800

\* C20: when original differs from current and value equals original, the
\* SSTORE gas function adds 19900 (20000 - 100) if original is zero and
\* 2800 ((5000 - 2100) - 100) if original is nonzero, next to the clearing
\* refund it reverses when current is zero; when original equals current it
\* adds no reset-to-original refund.
C20_ResetToOriginalRefund ==
    LET original == last.in.original
        current == last.in.current
        value == Back(last.stack, 1)
        reversed == IF original # 0 /\ current = 0 THEN ClearingRefund ELSE 0
    IN SStoreDone =>
          /\ (original # current /\ value = original /\ original = 0) =>
                RefundDelta = 19900
          /\ (original # current /\ value = original /\ original # 0) =>
                RefundDelta + reversed = 2800
          /\ original = current => RefundDelta \in {0, ClearingRefund}

C20_Witness ==
    /\ SStoreDone
    /\ last.in.original = 0
    /\ last.in.current = 7
    /\ Back(last.stack, 1) = 0
    /\ last.refundIn = 0
    /\ refund = 19900


----------------------------------------------------------------------------
(* Claims about the SELFDESTRUCT gas functions *)

\* C21: the SELFDESTRUCT dynamic gas is 2600 if the beneficiary address is
\* cold, else 0, plus 25000 if the beneficiary account is empty and the
\* executing contract's balance is nonzero, else 0; the beneficiary is warm
\* afterwards.
C21_SelfdestructGas ==
    last.op = SELFDESTRUCT =>
        LET beneficiary == Bytes20(Peek(last.stack))
            cold == IF beneficiary \in last.addrsIn THEN 0 ELSE 2600
            creation == IF last.in.empty /\ last.in.balance # 0 THEN 25000 ELSE 0
        IN /\ last.err = NoErr
           /\ last.cost = cold + creation
           /\ beneficiary \in accessAddrs
           /\ last.gasOut = last.gasIn
           /\ jt[SELFDESTRUCT].constantGas = 5000

C21_Witness ==
    /\ last.op = SELFDESTRUCT
    /\ Peek(last.stack) \notin last.addrsIn
    /\ last.in.empty
    /\ last.in.balance = 1
    /\ last.cost = 27600

\* C22: with the access-list feature the SELFDESTRUCT gas function adds the
\* refund 24000 exactly when the executing contract has not self-destructed
\* yet in the transaction, so the accumulator holds one refund per contract
\* that self-destructed; with the refund-reduction feature it never changes
\* the accumulator, and returns the same gas and the same access list as
\* the access-list function does on the same input.
C22_SelfdestructRefund ==
    /\ jt[SELFDESTRUCT].dynamicGas = "gasSelfdestructEIP2929" =>
          refund = 24000 * Cardinality(seen.destructed)
    /\ jt[SELFDESTRUCT].dynamicGas = "gasSelfdestructEIP3529" => refund = 0
    /\ last.op = SELFDESTRUCT =>
          LET db == [addrs |-> last.addrsIn, slots |-> last.slotsIn,
                     refund |-> last.refundIn, table |-> jt]
              contract == [addr |-> last.self, gas |-> last.gasIn]
              berlin == gasSelfdestructEIP2929(db, World(last.in), contract, last.stack)
              london == gasSelfdestructEIP3529(db, World(last.in), contract, last.stack)
          IN /\ berlin.cost = london.cost
             /\ berlin.err = london.err
             /\ berlin.db.addrs = london.db.addrs
             /\ berlin.db.slots = london.db.slots
             /\ london.db.refund = last.refundIn
             /\ berlin.db.refund =
                   last.refundIn + (IF last.in.suicided THEN 0 ELSE 24000)
             /\ last.in.suicided <=> last.self \in last.seenIn.destructed

C22_Witness ==
    /\ last.op = SELFDESTRUCT
    /\ last.fn = "gasSelfdestructEIP2929"
    /\ last.self \in last.seenIn.destructed
    /\ last.refundIn = 24000
    /\ refund = 24000


----------------------------------------------------------------------------
(* Executions on two contexts that share the frozen table *)

\* the metering execution has not changed its ledger yet; the copying
\* execution has not changed its memory yet
LedgerUntouched ==
    /\ last.op \in {NotInLedger.op, MCOPY}
    /\ accessAddrs = {TxDest}
    /\ accessSlots = {}
    /\ refund = 0
    /\ seen = NothingSeen
MemoryUntouched == memory = NewMemory

\* the copies the second execution may run
SharedCopies ==
    {<<src, dst, length>> : src \in {Word(0), Word(WordBytes)},
                            dst \in {Word(0), Word(WordBytes)},
                            length \in {Word(0), Word(WordBytes)}}

\* one execution meters an opcode against its access-list ledger or runs a
\* pushing action, another one runs MCOPY on its memory; each step of
\* either is atomic, and the two interleave in either order
SharedNext ==
    \/ LedgerUntouched /\ SLoadStep
    \/ LedgerUntouched /\ AccountCheckStep
    \/ LedgerUntouched /\ ExtCodeCopyStep
    \/ LedgerUntouched /\ CallStep
    \/ LedgerUntouched /\ SelfdestructStep
    \/ LedgerUntouched /\ SStoreStep
    \/ LedgerUntouched /\ PushStep
    \/ MemoryUntouched /\ \E stack \in SharedCopies : MCopyOn(stack)

SpecShared == AccessInit /\ [][SharedNext]_vars

----------------------------------------------------------------------------
(* Claims about the memory-copy opcode and the initcode gas functions *)

\* the last step ran MCOPY as the interpreter does / its action alone /
\* its gas function alone
MCopyRun == last.op = MCOPY /\ last.step = "MCopyStep"
MCopyActed == last.op = MCOPY /\ last.step = "OpMCopyStep"
MCopyMetered == last.op = MCOPY /\ last.step = "GasMCopyStep"

\* the operand words of the last MCOPY, as the action takes them
LastLength == Back(last.stack, 0)
LastDst == Back(last.stack, 1)
LastSrc == Back(last.stack, 2)

\* a word above 2^64 - 1, and an offset + length that is no uint64
Exceeds64(word) == word[2] # 0 \/ word[3] # 0 \/ word[4] # 0
EndNotUint64(offset, length) ==
    \/ Exceeds64(offset)
    \/ Exceeds64(length)
    \/ (offset[1] < 0 /\ length[1] < 0)
    \/ (offset[1] < 0 /\ length[1] > 0 /\ offset[1] + length[1] >= 0)
    \/ (length[1] < 0 /\ offset[1] > 0 /\ offset[1] + length[1] >= 0)

\* the byte at 0-based offset k of a store, zero beyond its end
ByteAt(store, k) == IF k < Len(store) THEN store[k + 1] ELSE 0

\* the fee of a memory of the given number of words
WordFee(words) == 3 * words + (words * words) \div 512
WordsOf(bytes) == (bytes + 31) \div 32

\* C23: for length 0 and any source and destination offsets, MCOPY (gas
\* function, then action) returns no error, charges no memory-expansion
\* gas, and leaves memory size and contents unchanged.
C23_ZeroLengthCopyIsFree ==
    (MCopyRun /\ LastLength = Word(0)) =>
        /\ last.gasErr = NoErr
        /\ last.err = NoErr
        /\ last.cost = 0
        /\ memory.store = last.memIn.store

\* C24: for source, destination and length > 0 whose ends are uint64 values
\* a memory can have, opMCopy returns no error; afterwards the bytes at
\* [dst, dst+length) are the bytes that were at [src, src+length) before,
\* every other byte that existed is unchanged, every other new byte is
\* zero, and the memory reaches exactly to the larger end if it grew.
C24_CopyAsThroughBuffer ==
    ((MCopyActed \/ (MCopyRun /\ last.ran))
        /\ ~Exceeds64(LastSrc) /\ ~Exceeds64(LastDst) /\ ~Exceeds64(LastLength)
        /\ LastSrc[1] >= 0 /\ LastDst[1] >= 0 /\ LastLength[1] > 0) =>
        LET src == LastSrc[1]
            dst == LastDst[1]
            length == LastLength[1]
            before == last.memIn.store
            after == memory.store
            end == IF src > dst THEN src + length ELSE dst + length
        IN /\ last.err = NoErr
           /\ Len(after) = (IF Len(before) > end THEN Len(before) ELSE end)
           /\ \A i \in 0..(length - 1) : ByteAt(after, dst + i) = ByteAt(before, src + i)
           /\ \A k \in 0..(Len(after) - 1) :
                 (k < dst \/ k >= dst + length) => ByteAt(after, k) = ByteAt(before, k)

C24_Witness ==
    /\ MCopyActed
    /\ last.stack = <<Word(0), Word(1), Word(32)>>
    /\ Len(last.memIn.store) = 64
    /\ last.err = NoErr
    /\ memory.store[2] = 1
    /\ memory.store[33] = 32
    /\ memory.store[34] = 34

\* C25: whenever source + length or destination + length is no uint64
\* value (an operand above 64 bits included), gasMCopy fails with
\* ErrGasUintOverflow and opMCopy with ErrMemoryOverflow, and neither
\* charges nor copies anything.
C25_OverflowAlwaysFails ==
    /\ (MCopyMetered /\ (EndNotUint64(LastSrc, LastLength)
                           \/ EndNotUint64(LastDst, LastLength))) =>
          /\ last.err = ErrGasUintOverflow
          /\ last.cost = 0
    /\ (MCopyActed /\ (EndNotUint64(LastSrc, LastLength)
                         \/ EndNotUint64(LastDst, LastLength))) =>
          /\ last.err = ErrMemoryOverflow
          /\ memory = last.memIn

\* C26: for operands whose ends are uint64 values, gasMCopy returns the
\* memory growth cost of the larger end plus 3 per byte: the growth cost is
\* 0 when the memory covers the end rounded up to words, else the
\* difference of the word fees (3 per word plus words squared over 512);
\* an end above the largest chargeable memory size is the growth cost's
\* overflow error.
C26_GasMCopyFormula ==
    ((MCopyMetered \/ MCopyRun)
        /\ ~EndNotUint64(LastSrc, LastLength)
        /\ ~EndNotUint64(LastDst, LastLength)) =>
        LET src == LastSrc[1]
            dst == LastDst[1]
            length == LastLength[1]
            end == IF Above(src, dst) THEN src + length ELSE dst + length
            have == Len(last.memIn.store)
            growth == IF WordsOf(end) * 32 <= have THEN 0
                      ELSE WordFee(WordsOf(end)) - WordFee(WordsOf(have))
            err == IF MCopyRun THEN last.gasErr ELSE last.err
        IN IF end < 0
           THEN err = ErrGasUintOverflow /\ last.cost = 0
           ELSE err = NoErr /\ last.cost = growth + 3 * length

C26_Witness ==
    /\ MCopyMetered
    /\ last.stack = <<Word(704), Word(0), Word(64)>>
    /\ Len(last.memIn.store) = 64
    /\ last.err = NoErr
    /\ last.cost = 259

\* C27: opMCopy pops exactly three words and pushes none; the top word is
\* its length, the second its destination offset, the third its source
\* offset; gasMCopy gives the same three positions the same three roles.
C27_SameOperandRoles ==
    MCopyActed =>
        /\ last.stackOut = SubSeq(last.stack, 1, Len(last.stack) - 3)
        /\ opMCopyOperands(last.stack).length = Back(last.stack, 0)
        /\ opMCopyOperands(last.stack).dst = Back(last.stack, 1)
        /\ opMCopyOperands(last.stack).src = Back(last.stack, 2)
        /\ gasMCopyOperands(last.stack).length = opMCopyOperands(last.stack).length
        /\ gasMCopyOperands(last.stack).dst = opMCopyOperands(last.stack).dst
        /\ gasMCopyOperands(last.stack).src = opMCopyOperands(last.stack).src

\* the last step ran one of the initcode gas functions
CreateMetered == last.op \in {"CREATE", "CREATE2"}

\* C28: both initcode gas functions return the max-size error when the
\* size word exceeds 49152, whatever the offset; else the overflow error
\* when offset + size is no uint64 value; else the memory growth cost of
\* offset + size plus 2 per 32-byte chunk of the size; and both return the
\* same result on every input.
C28_InitcodeGas ==
    CreateMetered =>
        LET size == Back(last.stack, 0)
            offset == Back(last.stack, 1)
            end == offset[1] + size[1]
            have == Len(last.memIn.store)
            growth == IF WordsOf(end) * 32 <= have THEN 0
                      ELSE WordFee(WordsOf(end)) - WordFee(WordsOf(have))
        IN /\ gasCreateEIP3860(jt, last.memIn, last.stack)
                 = gasCreate2EIP3860(jt, last.memIn, last.stack)
           /\ IF Exceeds64(size) \/ Above(size[1], 49152)
              THEN last.err = ErrMaxInitCodeSizeExceeded /\ last.cost = 0
              ELSE IF EndNotUint64(offset, size)
              THEN last.err = ErrGasUintOverflow /\ last.cost = 0
              ELSE IF end < 0
              THEN last.err = ErrGasUintOverflow /\ last.cost = 0
              ELSE last.err = NoErr /\ last.cost = growth + 2 * WordsOf(size[1])


----------------------------------------------------------------------------
(* Claims about the frozen table during execution *)

\* C29: no dynamic gas function and no opcode action writes the dispatch
\* table: in every interleaving of two executions on separate contexts
\* (one with the ledger, one with the memory), the table each gas function
\* and each action hands back with the EVM it was given is the table it
\* received, so every step leaves every entry of the shared table as it
\* was at the end of construction. The activator registry is a definition
\* that no step can write.
C29_TableNeverWritten == [][jt' = jt]_vars

C29_Witness ==
    /\ last.op = MCOPY
    /\ last.ran
    /\ Len(memory.store) = 2 * WordBytes
    /\ accessSlots # {}
    /\ seen.sstores # {}
    /\ jt = FrozenTable


----------------------------------------------------------------------------
(* Claims about the effect of the access-list activator on the table *)

WarmBaselineOps ==
    {EXTCODECOPY, EXTCODESIZE, EXTCODEHASH, BALANCE, CALL, CALLCODE,
     DELEGATECALL, STATICCALL}
AccessListOps == WarmBaselineOps \cup {SLOAD, SELFDESTRUCT, SSTORE}

\* C30: after enable2929 ran, EXTCODECOPY, EXTCODESIZE, EXTCODEHASH,
\* BALANCE, CALL, CALLCODE, DELEGATECALL and STATICCALL have constant gas
\* 100, SLOAD has constant gas 0, SELFDESTRUCT has constant gas 5000, each
\* of them and SSTORE has its access-list dynamic gas function, and nothing
\* else differs from the table before the call: not the descriptor of any
\* other opcode, not SSTORE's constant gas, and not the action or the stack
\* bounds of these opcodes.
C30_AccessListActivatorFrame ==
    called = <<"enable2929">> =>
        /\ berr = NoErr
        /\ \A op \in WarmBaselineOps : jt[op].constantGas = 100
        /\ jt[SLOAD].constantGas = 0
        /\ jt[SELFDESTRUCT].constantGas = 5000
        /\ jt[SSTORE].dynamicGas = "gasSStoreEIP2929"
        /\ jt[SLOAD].dynamicGas = "gasSLoadEIP2929"
        /\ jt[EXTCODECOPY].dynamicGas = "gasExtCodeCopyEIP2929"
        /\ \A op \in {EXTCODESIZE, EXTCODEHASH, BALANCE} :
              jt[op].dynamicGas = "gasEip2929AccountCheck"
        /\ jt[CALL].dynamicGas = "gasCallEIP2929"
        /\ jt[CALLCODE].dynamicGas = "gasCallCodeEIP2929"
        /\ jt[STATICCALL].dynamicGas = "gasStaticCallEIP2929"
        /\ jt[DELEGATECALL].dynamicGas = "gasDelegateCallEIP2929"
        /\ jt[SELFDESTRUCT].dynamicGas = "gasSelfdestructEIP2929"
        /\ DOMAIN jt = DOMAIN prevJt
        /\ \A op \in DOMAIN jt \ AccessListOps : jt[op] = prevJt[op]
        /\ jt[SSTORE].constantGas = prevJt[SSTORE].constantGas
        /\ \A op \in AccessListOps :
              /\ jt[op].execute = prevJt[op].execute
              /\ jt[op].minStack = prevJt[op].minStack
              /\ jt[op].maxStack = prevJt[op].maxStack

C30_Witness ==
    /\ called = <<"enable2929">>
    /\ prevJt[SLOAD].constantGas = 800
    /\ prevJt[SSTORE].dynamicGas = "gasSStoreEIP2200"
    /\ prevJt[BALANCE].constantGas = 700
    /\ jt[BALANCE].constantGas = 100
    /\ jt[SLOAD].constantGas = 0


----------------------------------------------------------------------------
(* Claims about the refund-reduction schedule *)

\* C31: enable3529 changes only the dynamic gas functions of SSTORE and
\* SELFDESTRUCT; on every input the SSTORE function it installs returns the
\* cost, error, remaining gas and access list that the access-list SSTORE
\* function returns, and the refund changes of the two split into the same
\* number (-1, 0 or 1) of clearing refunds, of 4800 and of 15000, plus the
\* same reset refund (0, 19900 or 2800); the two are compared on ledgers
\* that hold the clearing refund of either schedule for a cleared slot.
C31_RefundReductionRefinement ==
    /\ \A op \in DOMAIN jt \ {SSTORE, SELFDESTRUCT} : enable3529(jt)[op] = jt[op]
    /\ DOMAIN enable3529(jt) = DOMAIN jt
    /\ \A op \in {SSTORE, SELFDESTRUCT} :
          /\ enable3529(jt)[op].execute = jt[op].execute
          /\ enable3529(jt)[op].constantGas = jt[op].constantGas
          /\ enable3529(jt)[op].minStack = jt[op].minStack
          /\ enable3529(jt)[op].maxStack = jt[op].maxStack
    /\ enable3529(jt)[SSTORE].dynamicGas = "gasSStoreEIP3529"
    /\ enable3529(jt)[SELFDESTRUCT].dynamicGas = "gasSelfdestructEIP3529"
    /\ (/\ last.op = SSTORE
        /\ (last.in.original # 0 /\ last.in.current = 0) =>
               last.refundIn >= SstoreClearsScheduleRefundEIP2200) =>
          LET db == [addrs |-> last.addrsIn, slots |-> last.slotsIn,
                     refund |-> last.refundIn, table |-> jt]
              contract == [addr |-> last.self, gas |-> last.gasIn]
              berlin == gasSStoreEIP2929(db, World(last.in), contract, last.stack)
              london == gasSStoreEIP3529(db, World(last.in), contract, last.stack)
              ran == dynamicGas(last.fn, db, World(last.in), contract, last.stack)
          IN /\ berlin.cost = london.cost
             /\ berlin.err = london.err
             /\ berlin.contract = london.contract
             /\ berlin.db.addrs = london.db.addrs
             /\ berlin.db.slots = london.db.slots
             /\ \E k \in {-1, 0, 1}, reset \in {0, 19900, 2800} :
                   /\ berlin.db.refund - last.refundIn = k * 15000 + reset
                   /\ london.db.refund - last.refundIn = k * 4800 + reset
             /\ ran.cost = last.cost
             /\ ran.err = last.err
             /\ ran.db.refund = refund
             /\ ran.db.slots = accessSlots

C31_Witness ==
    /\ last.op = SSTORE
    /\ last.fn = "gasSStoreEIP3529"
    /\ last.in.original = 5
    /\ last.in.current = 0
    /\ Back(last.stack, 1) = 5
    /\ <<last.self, Peek(last.stack)>> \notin last.slotsIn
    /\ last.cost = 2200
    /\ refund = last.refundIn - 4800 + 2800


----------------------------------------------------------------------------
(* Claims about the EXTCODECOPY gas function *)

\* C32: the EXTCODECOPY access-list gas is the prior copy cost plus 2500
\* when the address is cold, which is then warm, and exactly the prior cost
\* when it is warm; when the prior computation fails its error is returned
\* with cost 0 and the access list is as before; when adding 2500 overflows
\* 64 bits the overflow error is returned with cost 0.
C32_ExtCodeCopyGas ==
    last.op = EXTCODECOPY =>
        LET addr == Bytes20(Peek(last.stack))
            prior == last.in.prior
            cold == addr \notin last.addrsIn
            \* prior.gas + 2500 >= 2^64 on the residues kept
            overflows == prior.gas < 0 /\ prior.gas + 2500 >= 0
        IN /\ accessSlots = last.slotsIn
           /\ refund = last.refundIn
           /\ last.gasOut = last.gasIn
           /\ IF prior.err # NoErr
              THEN /\ last.err = prior.err
                   /\ last.cost = 0
                   /\ accessAddrs = last.addrsIn
              ELSE IF ~cold
              THEN /\ last.err = NoErr
                   /\ last.cost = prior.gas
                   /\ accessAddrs = last.addrsIn
              ELSE IF overflows
              THEN /\ last.err = ErrGasUintOverflow
                   /\ last.cost = 0
              ELSE /\ last.err = NoErr
                   /\ last.cost = prior.gas + 2500
                   /\ accessAddrs = last.addrsIn \cup {addr}

C32_Witness ==
    /\ last.op = EXTCODECOPY
    /\ Peek(last.stack) \notin last.addrsIn
    /\ last.in.prior = [gas |-> 0, err |-> ErrGasUintOverflow]
    /\ last.err = ErrGasUintOverflow
    /\ Peek(last.stack) \notin accessAddrs


----------------------------------------------------------------------------
(* Claims about the memory size after the memory-copy opcode *)

\* the larger of two lengths
Longer(a, b) == IF a > b THEN a ELSE b

\* C33: after a successful MCOPY on a memory of whole 32-byte words the
\* memory size is a multiple of 32 bytes.
C33_MemoryInWords ==
    (((MCopyRun /\ last.ran) \/ MCopyActed)
        /\ last.err = NoErr
        /\ Len(last.memIn.store) % 32 = 0) =>
        Len(memory.store) % 32 = 0

\* C34: for every operand triple with length > 0 on which gasMCopy
\* succeeds, opMCopy run next on the same stack returns no error (its
\* overflow branch is not taken) and leaves the memory reaching to the
\* bound max(src+length, dst+length) that gasMCopy charged the growth for,
\* unless it reached further before.
C34_ActionGrowsToChargedBound ==
    (MCopyRun /\ last.gasErr = NoErr /\ LastLength # Word(0)) =>
        LET ops == gasMCopyOperands(last.stack)
            length == Uint64(ops.length)
            endSrc == Uint64(ops.src) + length
            endDst == Uint64(ops.dst) + length
            bound == Longer(endSrc, endDst)
            have == Len(last.memIn.store)
            growth == IF WordsOf(bound) * 32 <= have THEN 0
                      ELSE WordFee(WordsOf(bound)) - WordFee(WordsOf(have))
        IN /\ last.ran
           /\ last.err = NoErr
           /\ last.cost = growth + 3 * length
           /\ Len(memory.store) = Longer(have, bound)


----------------------------------------------------------------------------
(* Claims about the refunds of a transaction's SSTOREs *)

\* C35: in a transaction that starts with an empty refund accumulator,
\* after every sequence of SSTOREs (gas computation, then the write) the
\* clearing refunds added less those subtracted are, for each slot, 1 when
\* its original value is nonzero and its current value is zero, and 0
\* otherwise; no subtraction finds the accumulator short of the clearing
\* refund (SubRefund never panics), and the accumulator never falls below
\* zero.
C35_ClearingRefundsBalance ==
    seen.writes > 0 =>
        /\ last.err = NoErr
        /\ \A slot \in WriteSlots :
              seen.clears[slot] =
                  (IF seen.original[slot] # 0 /\ seen.current[slot] = 0 THEN 1 ELSE 0)
        /\ refund >= 0

C35_Witness ==
    /\ seen.writes = 3
    /\ seen.original[1] = 5
    /\ seen.current[1] = 0
    /\ seen.clears[1] = 1
    /\ last.in.current = 7
    /\ last.refundIn = 0
    /\ seen.original[2] = 0
    /\ seen.current[2] = 0
    /\ seen.clears[2] = 0
    /\ <<TxDest, 2>> \in seen.sstores
    /\ refund >= ScheduleClearingRefund


----------------------------------------------------------------------------
(* Claims about the position of the memory-copy identifier *)

\* the list with x inserted after its first k entries
InsertAt(list, k, x) == SubSeq(list, 1, k) \o <<x>> \o SubSeq(list, k + 1, Len(list))

\* the identifiers of the list other than the memory-copy one, in order
OtherIds(list) == SelectSeq(list, LAMBDA id : id # E5656)

\* C36: the memory-copy activator commutes with every other registered
\* activator: a table built from a list that names ethereum_5656 equals the
\* table built from the other identifiers with ethereum_5656 put before,
\* between or after them, and differs from the table built from the other
\* identifiers alone in the MCOPY descriptor only.
C36_MCopyActivatorCommutes ==
    (built # <<>> /\ E5656 \in Range(ids)) =>
        LET others == OtherIds(ids)
            without == ApplyAll(others, base)
        IN /\ \A k \in 0..Len(others) :
                  ApplyAll(InsertAt(others, k, E5656), base) = built[1]
           /\ built[1] = enablerFn("enable5656", without)
           /\ \A op \in DOMAIN without \ {MCOPY} : built[1][op] = without[op]

C36_Witness ==
    /\ built # <<>>
    /\ pass = 1
    /\ ids = <<E2929, E5656, E3855>>
    /\ applied = ids
    /\ built[1][MCOPY].execute = "opMCopy"
    /\ built[1][PUSH0].execute # base[PUSH0].execute
    /\ built[1][SLOAD].constantGas # base[SLOAD].constantGas

----------------------------------------------------------------------------
(* The parameter migration of the module store *)

\* longest stored extra-feature list
MaxStoredEIPs == 2
\* migrations run on one store
MaxMigrations == 3

newEIP == E5656
ErrParamsNotFound == <<"evm parameters not found">>
\* any error Params.Validate returns
ErrInvalidParams == <<"invalid parameters">>

\* the zero Params message
ZeroParams == [extraEIPs |-> <<>>, allowUnprotectedTxs |-> FALSE, rest |-> 0]

\* cdc.MustMarshal / cdc.MustUnmarshal: the bytes of a message, and the
\* message of some bytes; no bytes decode to the zero message
MustMarshal(params) == <<"bz", params>>
MustUnmarshal(bz) == IF bz = NilBytes THEN ZeroParams ELSE bz[2]

\* the loop over params.ExtraEIPs that looks for the new identifier
Found(extraEIPs, eip) == \E i \in 1..Len(extraEIPs) : extraEIPs[i] = eip

\* Params.Validate is outside the migration: its verdict is an input
Validate(params, verdict) == verdict

MigrateStoreAlwaysAppends(bz, verdict) ==
    IF bz = NilBytes
    THEN [err |-> ErrParamsNotFound, store |-> bz]
    ELSE LET params == MustUnmarshal(bz)
             updated == [params EXCEPT !.extraEIPs = Append(@, newEIP)]
         IN IF Validate(updated, verdict) # NoErr
            THEN [err |-> Validate(updated, verdict), store |-> bz]
            ELSE [err |-> NoErr, store |-> MustMarshal(updated)]

\* MigrateStore of the upgrade handler: the stored parameters with the new
\* identifier appended when the list does not hold it
MigrateStore(bz, verdict) ==
    IF bz = NilBytes
    THEN [err |-> ErrParamsNotFound, store |-> bz]
    ELSE LET params == MustUnmarshal(bz)
             found == Found(params.extraEIPs, newEIP)
             updated == IF ~found
                        THEN [params EXCEPT !.extraEIPs = Append(@, newEIP)]
                        ELSE params
         IN IF Validate(updated, verdict) # NoErr
            THEN [err |-> Validate(updated, verdict), store |-> bz]
            ELSE [err |-> NoErr, store |-> MustMarshal(updated)]

\* MigrateStore of the module migration: the stored bytes are read as the
\* previous version's parameters, the fields it names are copied into new
\* parameters (every other field keeps its zero value), and the new
\* identifier is appended when the list does not hold it
MigrateStoreFromV8(bz, verdict) ==
    LET paramsV8 == MustUnmarshal(bz)
        params == [ZeroParams EXCEPT !.allowUnprotectedTxs = paramsV8.allowUnprotectedTxs,
                                     !.extraEIPs = paramsV8.extraEIPs]
        found == Found(params.extraEIPs, E5656)
        updated == IF ~found
                   THEN [params EXCEPT !.extraEIPs = Append(@, E5656)]
                   ELSE params
    IN IF Validate(updated, verdict) # NoErr
       THEN [err |-> Validate(updated, verdict), store |-> bz]
       ELSE [err |-> NoErr, store |-> MustMarshal(updated)]

MigrateFuncs == {"MigrateStore", "MigrateStoreFromV8"}

migrate(fn, bz, verdict) ==
    CASE fn = "MigrateStore" -> MigrateStore(bz, verdict)
      [] fn = "MigrateStoreFromV8" -> MigrateStoreFromV8(bz, verdict)

StoredEIPs == SeqsUpTo({E5656, E2929, E3855}, MaxStoredEIPs)

StoredParams ==
    {[extraEIPs |-> l, allowUnprotectedTxs |-> a, rest |-> r] :
        l \in StoredEIPs, a \in BOOLEAN, r \in {0, 1}}

MigrateInit ==
    /\ kvStore \in {NilBytes} \cup {MustMarshal(params) : params \in StoredParams}
    /\ accessAddrs = {}
    /\ accessSlots = {}
    /\ refund = 0
    /\ memory = NewMemory
    /\ last = NotInLedger
    /\ seen = NothingSeen
    /\ jt = NotInBuilder
    /\ base = NotInBuilder
    /\ baseNow = NotInBuilder
    /\ shared = {}
    /\ prevJt = NotInBuilder
    /\ ids = <<>>
    /\ pos = 0
    /\ pass = 1
    /\ berr = NoErr
    /\ called = <<>>
    /\ applied = <<>>
    /\ built = <<>>
    /\ name = NotInNames
    /\ vres = <<>>
    /\ lres = <<>>

\* fmt.Errorf("failed to migrate evm store: %w", err)
ErrFailedToMigrate(err) == <<"failed to migrate evm store: ">> \o err

\* mm.RunMigrations, as far as this module goes: the module manager is
\* outside the repository; it runs the module's migration to the new
\* version when it finds it due and returns its error
RunMigrations(bz, due, verdict) ==
    IF due THEN MigrateStoreFromV8(bz, verdict) ELSE [err |-> NoErr, store |-> bz]

MigrationsRun == IF last = NotInLedger THEN 0 ELSE last.runs
MigrationsDone == IF last = NotInLedger THEN {} ELSE last.done

\* one call of the upgrade handler: MigrateStore, whose error ends the call,
\* then the module migrations; last keeps the bytes the call found, the
\* bytes MigrateStore left, the errors, and the migration functions that
\* had succeeded on this store before the call (before) and after it (done)
UpgradeHandler ==
    \E verdict \in {NoErr, ErrInvalidParams}, due \in BOOLEAN,
       moduleVerdict \in {NoErr, ErrInvalidParams} :
        LET m == MigrateStore(kvStore, verdict)
            r == RunMigrations(m.store, due, moduleVerdict)
            failed == m.err # NoErr
        IN /\ MigrationsRun < MaxMigrations
           /\ kvStore' = IF failed THEN m.store ELSE r.store
           /\ last' = [op |-> "UpgradeHandler",
                       storeIn |-> kvStore,
                       migrateErr |-> m.err,
                       migrated |-> m.store,
                       moduleRan |-> ~failed /\ due,
                       err |-> IF failed THEN ErrFailedToMigrate(m.err) ELSE r.err,
                       runs |-> MigrationsRun + 1,
                       before |-> MigrationsDone,
                       done |-> MigrationsDone
                                  \cup (IF failed THEN {} ELSE {"MigrateStore"})
                                  \cup (IF ~failed /\ due /\ r.err = NoErr
                                        THEN {"MigrateStoreFromV8"} ELSE {})]
           /\ UNCHANGED <<accessAddrs, accessSlots, refund, memory, seen>>
           /\ UNCHANGED builderVars
           /\ UNCHANGED nameVars

SpecMigrate == MigrateInit /\ [][UpgradeHandler]_vars

----------------------------------------------------------------------------
(* Claims about the parameter migration *)

RECURSIVE Count(_, _)
Count(list, x) ==
    IF list = <<>> THEN 0
    ELSE (IF Head(list) = x THEN 1 ELSE 0) + Count(Tail(list), x)

HandlerRan == last # NotInLedger /\ last.op = "UpgradeHandler"

\* the stored list after a migration holds ethereum_5656, begins with the
\* list stored before, and has gained no second ethereum_5656
MigratedFrom(bzBefore, bzAfter) ==
    LET after == MustUnmarshal(bzAfter).extraEIPs
        before == MustUnmarshal(bzBefore).extraEIPs
    IN /\ bzAfter # NilBytes
       /\ Found(after, E5656)
       /\ Len(after) >= Len(before)
       /\ SubSeq(after, 1, Len(before)) = before
       /\ Count(after, E5656) = (IF Count(before, E5656) = 0 THEN 1
                                 ELSE Count(before, E5656))

\* C37: after a successful MigrateStore the stored extra-feature list holds
\* ethereum_5656, begins with the list stored before (every identifier kept,
\* in order), and has gained no second ethereum_5656; the same migration
\* run again on the result leaves the stored parameters unchanged. This
\* holds of the upgrade handler's MigrateStore and of the module migration
\* it goes on to, as they ran in the handler and as computed on the bytes
\* the handler found.
C37_MigrationIdempotent ==
    HandlerRan =>
        /\ \A fn \in MigrateFuncs :
              LET r == migrate(fn, last.storeIn, NoErr)
              IN r.err = NoErr =>
                    /\ MigratedFrom(last.storeIn, r.store)
                    /\ \A verdict \in {NoErr, ErrInvalidParams} :
                           migrate(fn, r.store, verdict).store = r.store
        /\ last.migrateErr # NoErr =>
              /\ kvStore = last.storeIn
              /\ last.err = ErrFailedToMigrate(last.migrateErr)
        /\ last.migrateErr = NoErr =>
              /\ MigratedFrom(last.storeIn, last.migrated)
              /\ "MigrateStore" \in last.before => last.migrated = last.storeIn
        /\ (last.moduleRan /\ last.err = NoErr) =>
              /\ MigratedFrom(last.migrated, kvStore)
              /\ MustUnmarshal(kvStore).extraEIPs = MustUnmarshal(last.migrated).extraEIPs
              /\ "MigrateStoreFromV8" \in last.before => kvStore = last.migrated

C37_Witness ==
    /\ HandlerRan
    /\ last.err = NoErr
    /\ last.moduleRan
    /\ last.before = MigrateFuncs
    /\ last.runs = 2
    /\ last.storeIn = kvStore
    /\ MustUnmarshal(kvStore).extraEIPs = <<E2929, E5656>>

====
